---- MODULE Spec2Model ----
(***************************************************************************)
(* A model of the kiln/macaw in-memory record store: Library, Sequencer,   *)
(* Catalog (create, create_from_prototype, get, lock, commit, unlock,      *)
(* change log, prototype propagation) and the UndoRedo engine.             *)
(*                                                                         *)
(* Record ids are 0-based as in the code; the sequences records, locks and *)
(* change_log are 1-based, so record id i lives at position i + 1.         *)
(* A wrapper (Arc<RecordWrapper<R>>) is an object of the heap `wrappers`;  *)
(* its identity is its position in the heap.                               *)
(***************************************************************************)
EXTENDS Integers, Sequences, FiniteSets, TLC

VARIABLES
    records,      \* CatalogStateInner.records, per catalog: Seq of wrapper ids
    locks,        \* CatalogStateInner.locks, per catalog: Seq of BOOLEAN
    change_log,   \* CatalogStateInner.change_log, per catalog: Seq of ChangeRecord
    state_mutex,  \* holder of CatalogState.inner (the state Mutex), per catalog
    wrappers,     \* the heap of RecordWrapper objects
    inst_mutex,   \* wrappers whose prototype_instances Mutex is held
    next_lsn,     \* Sequencer.next_lsn
    pc,           \* per thread: where the thread is
    ret,          \* per thread: where it continues when the running call returns
    cur,          \* per thread: the arguments and locals of the running call
    frames,       \* per thread: the stack of running commit_internal calls
    handles,      \* per thread: the Locked handles it owns
    reads,        \* per thread: Catalog.reads, the wrappers kept alive
    prog,         \* per thread: the locals of the thread's own program
    undo_stack,   \* UndoRedo.undo_stack
    redo_stack,   \* UndoRedo.redo_stack
    watchers,     \* UndoRedo.watchers: Seq of [cat, cur_watermark]
    eng,          \* the locals of the running UndoRedo call
    hist          \* history of the edits the client made (used only by properties)

vars == <<records, locks, change_log, state_mutex, wrappers, inst_mutex, next_lsn,
          pc, ret, cur, frames, handles, reads, prog,
          undo_stack, redo_stack, watchers, eng, hist>>

libVars == <<records, locks, change_log, state_mutex, wrappers, inst_mutex, next_lsn>>
engVars == <<undo_stack, redo_stack, watchers, eng>>

----------------------------------------------------------------------------
(* Bounds of the model *)

CounterThreads == 2
CounterExtra == 1
ChainMaxCommits == 2
FamilyMaxCommits == 3
ClientMaxCalls == 2
UndoMaxEdits == 2
UndoMaxCalls == 3
RaceMaxEdits == 1
ScopeMaxEdits == 2
ScopeMaxCalls == 3
OrderMaxEdits == 2
OrderMaxCalls == 2
AscMaxCalls == 3
AscMaxRecords == 3
ReaderMaxGets == 2
ReaderMaxCommits == 2
IterMaxCalls == 2
LibMaxCalls == 3
LibMaxEdits == 2
ProtoMaxInstances == 2
ProtoMaxCalls == 3
TreeMaxRecords == 4
TreeMaxCommits == 1
MaxValue == 1

(* Constants of the program *)

PersonStep == 1
DogStep == 7

\* The strings "Grandma", "Old Timey Pasta" and "Pasta"; "" is 0.
Grandma == 1
OldTimeyPasta == 1
Pasta == 2

----------------------------------------------------------------------------
(* Data *)

NoThread == -1
NoId == -1
NoWrapper == 0
Poisoned == -2

Threads == DOMAIN pc
Catalogs == DOMAIN records

FieldsOf(c) ==
    IF c = "Person" THEN {"age", "name", "fav_food"} ELSE {"dog_years"}

DefaultRecord(c) == [f \in FieldsOf(c) |-> 0]

\* The values a program writes into a field.
Values == 0..MaxValue

RecordWrapper(prototype_id, prototype_instances, inner) ==
    [prototype_id |-> prototype_id,
     prototype_instances |-> prototype_instances,
     inner |-> inner]

ChangeRecordSwapped(record_id, lsn, old_record, new_record) ==
    [record_id |-> record_id, lsn |-> lsn,
     old_record |-> new_record, new_record |-> old_record]

ChangeRecord(record_id, lsn, old_record, new_record) ==
    [record_id |-> record_id, lsn |-> lsn,
     old_record |-> old_record, new_record |-> new_record]

Locked(c, id, value) == [cat |-> c, id |-> id, value |-> value]

NoCur ==
    [cat |-> "", id |-> NoId, old |-> NoWrapper, new |-> NoWrapper,
     inner |-> <<>>, proto |-> NoId, pw |-> NoWrapper, lsn |-> 0]

NoProg == [todo |-> {}, n |-> 0, val |-> 0]

NoEng == [op |-> "", scope |-> "", i |-> 0, acc |-> <<>>, top |-> <<>>, replay |-> <<>>]

Frame(c, id, old, new, todo, child) ==
    [cat |-> c, id |-> id, old |-> old, new |-> new, todo |-> todo, child |-> child]

Top(s) == s[Len(s)]
Pop(s) == SubSeq(s, 1, Len(s) - 1)

Inner(c, id) == wrappers[records[c][id + 1]].inner

----------------------------------------------------------------------------
(* record.rs *)

\* A merge that never adopts the prototype's new value.
merge_field_keep(instance_field, old_prototype_field, new_prototype_field) ==
    instance_field

\* A merge that always adopts the prototype's new value.
merge_field_adopt(instance_field, old_prototype_field, new_prototype_field) ==
    new_prototype_field

\* A merge that takes the instance for overridden only when its field is
\* above the prototype's old one.
merge_field_less(instance_field, old_prototype_field, new_prototype_field) ==
    IF old_prototype_field < instance_field
    THEN instance_field
    ELSE new_prototype_field

merge_field(instance_field, old_prototype_field, new_prototype_field) ==
    IF old_prototype_field # instance_field
    THEN instance_field
    ELSE new_prototype_field

proto_update(self, old, new) ==
    [f \in DOMAIN self |-> merge_field(self[f], old[f], new[f])]

----------------------------------------------------------------------------
(* library.rs: Sequencer *)

\* A Sequencer whose counter is never advanced.
SequencerStuck == next_lsn

\* Sequencer::next: fetch_add(1); the value returned is next_lsn, the value
\* stored is this one.
SequencerNext == next_lsn + 1

----------------------------------------------------------------------------
(* catalog.rs *)

\* A state lock that excludes nobody.
StateNeverHeld(c) == c \in Catalogs

\* self.state.inner.lock() succeeds.
StateFree(c) == state_mutex[c] = NoThread

\* A wait_while whose condition is always false.
LockNeverWaits(c, id) == id < Len(locks[c])

\* The condition of wait_while(state, |library| library.locks[id.0]) is false.
LockFree(c, id) == ~locks[c][id + 1]

InstFree(w) == w \notin inst_mutex

\* get_internal(id, true): wait while locks[id]; set it; clone records[id].
GetInternalLock(c, id) ==
    /\ StateFree(c)
    /\ LockFree(c, id)
    /\ locks' = [locks EXCEPT ![c][id + 1] = TRUE]

\* An unlock that leaves the flag set.
UnlockKept(c, id) ==
    /\ StateFree(c)
    /\ UNCHANGED locks

\* unlock(id): clear the flag and notify_all.
Unlock(c, id) ==
    /\ StateFree(c)
    /\ locks' = [locks EXCEPT ![c][id + 1] = FALSE]

\* Catalog::lock: get_internal(id, true), unwrap_record_wrapper, Locked { .. }.
DoLock(t, c, id, next) ==
    /\ id < Len(records[c])
    /\ GetInternalLock(c, id)
    /\ handles' = [handles EXCEPT ![t] = @ \cup {Locked(c, id, records[c][id + 1])}]
    /\ reads' = [reads EXCEPT ![t] = @ \cup {records[c][id + 1]}]
    /\ pc' = [pc EXCEPT ![t] = next]
    /\ UNCHANGED <<records, change_log, state_mutex, wrappers, inst_mutex, next_lsn,
                   ret, cur, frames>>

\* A get that goes through get_internal(id, true): it waits for the record
\* lock and sets it.
DoGetLocking(t, c, id, next) ==
    /\ id < Len(records[c])
    /\ GetInternalLock(c, id)
    /\ reads' = [reads EXCEPT ![t] = @ \cup {records[c][id + 1]}]
    /\ pc' = [pc EXCEPT ![t] = next]
    /\ UNCHANGED <<records, change_log, state_mutex, wrappers, inst_mutex, next_lsn,
                   ret, cur, frames, handles>>

\* Catalog::get: get_internal(id, false) takes the state lock and clones
\* records[id]; unwrap_record_wrapper keeps the clone in reads.
DoGet(t, c, id, next) ==
    /\ id < Len(records[c])
    /\ StateFree(c)
    /\ reads' = [reads EXCEPT ![t] = @ \cup {records[c][id + 1]}]
    /\ pc' = [pc EXCEPT ![t] = next]
    /\ UNCHANGED <<libVars, ret, cur, frames, handles>>

\* Drop for Locked: catalog.unlock(id).
DoDrop(t, h, next) ==
    /\ h \in handles[t]
    /\ Unlock(h.cat, h.id)
    /\ handles' = [handles EXCEPT ![t] = @ \ {h}]
    /\ pc' = [pc EXCEPT ![t] = next]
    /\ UNCHANGED <<records, change_log, state_mutex, wrappers, inst_mutex, next_lsn,
                   ret, cur, frames, reads>>

\* Catalog::commit: old_record = get_internal(locked.id, false), then
\* commit_internal(locked.id, old_record, new_record).
DoCommit(t, c, id, new_record, next) ==
    /\ StateFree(c)
    /\ cur' = [cur EXCEPT ![t] = [NoCur EXCEPT !.cat = c, !.id = id,
                                               !.old = records[c][id + 1],
                                               !.inner = new_record]]
    /\ pc' = [pc EXCEPT ![t] = "ci_enter"]
    /\ ret' = [ret EXCEPT ![t] = next]
    /\ UNCHANGED <<libVars, frames, handles, reads>>

\* A commit_internal that writes the new value into the old wrapper.
CommitInPlace(t) ==
    /\ pc[t] = "ci_enter"
    /\ LET c == cur[t].cat
           id == cur[t].id
           old == cur[t].old
           new == old
       IN /\ InstFree(old)
          /\ StateFree(c)
          /\ inst_mutex' = inst_mutex \cup {old}
          /\ wrappers' = [wrappers EXCEPT ![old].inner = cur[t].inner]
          /\ state_mutex' = [state_mutex EXCEPT ![c] = t]
          /\ records' = [records EXCEPT ![c][id + 1] = new]
          /\ next_lsn' = SequencerNext
          /\ cur' = [cur EXCEPT ![t].new = new, ![t].lsn = next_lsn]
          /\ frames' = [frames EXCEPT ![t] =
                 Append(@, Frame(c, id, old, new, wrappers[old].prototype_instances, NoId))]
    /\ pc' = [pc EXCEPT ![t] = "ci_log"]
    /\ UNCHANGED <<locks, change_log, ret, handles, reads>>
    /\ UNCHANGED <<prog, engVars, hist>>

\* commit_internal, lines 139-147 and write_change_log line 172: lock the old
\* wrapper's prototype_instances, build the new wrapper, take the state lock,
\* replace the slot, draw the LSN.
CommitInternalEnter(t) ==
    /\ pc[t] = "ci_enter"
    /\ LET c == cur[t].cat
           id == cur[t].id
           old == cur[t].old
           new == Len(wrappers) + 1
       IN /\ InstFree(old)
          /\ StateFree(c)
          /\ inst_mutex' = inst_mutex \cup {old}
          /\ wrappers' = Append(wrappers,
                 RecordWrapper(wrappers[old].prototype_id,
                               wrappers[old].prototype_instances,
                               cur[t].inner))
          /\ state_mutex' = [state_mutex EXCEPT ![c] = t]
          /\ records' = [records EXCEPT ![c][id + 1] = new]
          /\ next_lsn' = SequencerNext
          /\ cur' = [cur EXCEPT ![t].new = new, ![t].lsn = next_lsn]
          /\ frames' = [frames EXCEPT ![t] =
                 Append(@, Frame(c, id, old, new, wrappers[old].prototype_instances, NoId))]
    /\ pc' = [pc EXCEPT ![t] = "ci_log"]
    /\ UNCHANGED <<locks, change_log, ret, handles, reads>>
    /\ UNCHANGED <<prog, engVars, hist>>


\* The stack of frames and the program counter once the top frame has no
\* instance left: commit_internal returns (dropping the prototype_instances
\* guard) to the caller's unlock of this instance, or commit returns.
FrameReturn(t, fs) ==
    /\ frames' = [frames EXCEPT ![t] = Pop(fs)]
    /\ inst_mutex' = inst_mutex \ {Top(fs).old}
    /\ IF Len(fs) = 1
       THEN /\ pc' = [pc EXCEPT ![t] = ret[t]]
            /\ cur' = [cur EXCEPT ![t] = NoCur]
       ELSE /\ pc' = [pc EXCEPT ![t] = "ci_unlock"]
            /\ cur' = cur

LoopSkip(t, fs) == FrameReturn(t, fs)

\* The head of the loop of commit_internal, lines 155-162, on the stack fs
\* whose top frame has the instances todo left: the iterator yields the next
\* instance (a HashSet yields them in no stated order), or the loop ends.
LoopHead(t, fs) ==
    IF Top(fs).todo = {}
    THEN FrameReturn(t, fs)
    ELSE /\ \E child \in Top(fs).todo :
               frames' = [frames EXCEPT ![t] = [fs EXCEPT ![Len(fs)].child = child]]
         /\ pc' = [pc EXCEPT ![t] = "ci_lock"]
         /\ UNCHANGED <<inst_mutex, cur>>

\* A write_change_log that writes over the last change record.
CommitInternalLogOver(t) ==
    /\ pc[t] = "ci_log"
    /\ LET c == cur[t].cat
       IN /\ change_log' = [change_log EXCEPT ![c] =
                 Append(Pop(@), ChangeRecord(cur[t].id, cur[t].lsn, cur[t].old, cur[t].new))]
          /\ state_mutex' = [state_mutex EXCEPT ![c] = NoThread]
    /\ LoopHead(t, frames[t])
    /\ UNCHANGED <<records, locks, wrappers, next_lsn, ret, handles, reads>>
    /\ UNCHANGED <<prog, engVars>>

\* write_change_log, lines 173-178: push the change record; the state lock
\* guard is dropped; then the loop over the instances starts.  hist is left
\* to the program.
CommitInternalLog(t) ==
    /\ pc[t] = "ci_log"
    /\ LET c == cur[t].cat
       IN /\ change_log' = [change_log EXCEPT ![c] =
                 Append(@, ChangeRecord(cur[t].id, cur[t].lsn, cur[t].old, cur[t].new))]
          /\ state_mutex' = [state_mutex EXCEPT ![c] = NoThread]
    /\ LoopHead(t, frames[t])
    /\ UNCHANGED <<records, locks, wrappers, next_lsn, ret, handles, reads>>
    /\ UNCHANGED <<prog, engVars>>


\* A propagation that takes the instance without waiting for its lock and
\* without setting it.
PropagateNoLock(t) ==
    /\ pc[t] = "ci_lock"
    /\ LET f == Top(frames[t])
           c == f.cat
           instance_wrapper == records[c][f.child + 1]
       IN /\ StateFree(c)
          /\ locks' = locks
          /\ cur' = [cur EXCEPT ![t] = [NoCur EXCEPT
                 !.cat = c, !.id = f.child, !.old = instance_wrapper,
                 !.inner = proto_update(wrappers[instance_wrapper].inner,
                                        wrappers[f.old].inner,
                                        wrappers[f.new].inner)]]
    /\ pc' = [pc EXCEPT ![t] = "ci_enter"]
    /\ UNCHANGED <<records, change_log, state_mutex, wrappers, inst_mutex, next_lsn,
                   ret, frames, handles, reads>>
    /\ UNCHANGED <<prog, engVars, hist>>

\* A propagation whose get_internal lets the thread through when the
\* instance is locked by a handle of its own.
PropagateLockOwn(t) ==
    /\ pc[t] = "ci_lock"
    /\ LET f == Top(frames[t])
           c == f.cat
           instance_wrapper == records[c][f.child + 1]
       IN /\ StateFree(c)
          /\ LockFree(c, f.child) \/ \E h \in handles[t] : h.cat = c /\ h.id = f.child
          /\ locks' = [locks EXCEPT ![c][f.child + 1] = TRUE]
          /\ cur' = [cur EXCEPT ![t] = [NoCur EXCEPT
                 !.cat = c, !.id = f.child, !.old = instance_wrapper,
                 !.inner = proto_update(wrappers[instance_wrapper].inner,
                                        wrappers[f.old].inner,
                                        wrappers[f.new].inner)]]
    /\ pc' = [pc EXCEPT ![t] = "ci_enter"]
    /\ UNCHANGED <<records, change_log, state_mutex, wrappers, inst_mutex, next_lsn,
                   ret, frames, handles, reads>>
    /\ UNCHANGED <<prog, engVars, hist>>

\* commit_internal, lines 156-160: get_internal(instance_id, true), proto_update,
\* and the call of commit_internal on the instance.
PropagateLock(t) ==
    /\ pc[t] = "ci_lock"
    /\ LET f == Top(frames[t])
           c == f.cat
           instance_wrapper == records[c][f.child + 1]
       IN /\ GetInternalLock(c, f.child)
          /\ cur' = [cur EXCEPT ![t] = [NoCur EXCEPT
                 !.cat = c, !.id = f.child, !.old = instance_wrapper,
                 !.inner = proto_update(wrappers[instance_wrapper].inner,
                                        wrappers[f.old].inner,
                                        wrappers[f.new].inner)]]
    /\ pc' = [pc EXCEPT ![t] = "ci_enter"]
    /\ UNCHANGED <<records, change_log, state_mutex, wrappers, inst_mutex, next_lsn,
                   ret, frames, handles, reads>>
    /\ UNCHANGED <<prog, engVars, hist>>


\* commit_internal, line 161: unlock(instance_id), then the next instance.
PropagateUnlock(t) ==
    /\ pc[t] = "ci_unlock"
    /\ LET fs == frames[t]
           f == Top(fs)
       IN /\ Unlock(f.cat, f.child)
          /\ LoopHead(t, [fs EXCEPT ![Len(fs)].todo = @ \ {f.child},
                                    ![Len(fs)].child = NoId])
    /\ UNCHANGED <<records, change_log, state_mutex, wrappers, next_lsn,
                   ret, handles, reads>>
    /\ UNCHANGED <<prog, engVars, hist>>


\* A create_internal that pushes no lock flag.
CreateInternalNoFlag(t, c, prototype_id, inner) ==
    /\ StateFree(c)
    /\ LET new == Len(wrappers) + 1
       IN /\ wrappers' = Append(wrappers, RecordWrapper(prototype_id, {}, inner))
          /\ records' = [records EXCEPT ![c] = Append(@, new)]
          /\ locks' = locks
          /\ state_mutex' = [state_mutex EXCEPT ![c] = t]
          /\ next_lsn' = SequencerNext
          /\ cur' = [cur EXCEPT ![t].cat = c, ![t].id = Len(records[c]),
                                ![t].new = new, ![t].lsn = next_lsn,
                                ![t].proto = prototype_id]
    /\ pc' = [pc EXCEPT ![t] = "create_log"]
    /\ UNCHANGED <<change_log, inst_mutex, frames, handles, reads>>

\* A create_internal that makes an instance its own prototype.
CreateInternalSelf(t, c, prototype_id, inner) ==
    /\ StateFree(c)
    /\ LET new == Len(wrappers) + 1
           self == IF prototype_id = NoId THEN NoId ELSE Len(records[c])
       IN /\ wrappers' = Append(wrappers, RecordWrapper(self, {}, inner))
          /\ records' = [records EXCEPT ![c] = Append(@, new)]
          /\ locks' = [locks EXCEPT ![c] = Append(@, FALSE)]
          /\ state_mutex' = [state_mutex EXCEPT ![c] = t]
          /\ next_lsn' = SequencerNext
          /\ cur' = [cur EXCEPT ![t].cat = c, ![t].id = Len(records[c]),
                                ![t].new = new, ![t].lsn = next_lsn,
                                ![t].proto = prototype_id]
    /\ pc' = [pc EXCEPT ![t] = "create_log"]
    /\ UNCHANGED <<change_log, inst_mutex, frames, handles, reads>>

\* create_internal, lines 82-87 and write_change_log line 172: take the state
\* lock, push the wrapper and a clear lock flag, draw the LSN.
CreateInternal(t, c, prototype_id, inner) ==
    /\ StateFree(c)
    /\ LET new == Len(wrappers) + 1
       IN /\ wrappers' = Append(wrappers, RecordWrapper(prototype_id, {}, inner))
          /\ records' = [records EXCEPT ![c] = Append(@, new)]
          /\ locks' = [locks EXCEPT ![c] = Append(@, FALSE)]
          /\ state_mutex' = [state_mutex EXCEPT ![c] = t]
          /\ next_lsn' = SequencerNext
          /\ cur' = [cur EXCEPT ![t].cat = c, ![t].id = Len(records[c]),
                                ![t].new = new, ![t].lsn = next_lsn,
                                ![t].proto = prototype_id]
    /\ pc' = [pc EXCEPT ![t] = "create_log"]
    /\ UNCHANGED <<change_log, inst_mutex, frames, handles, reads>>

\* Catalog::create.
DoCreate(t, c, record, next) ==
    /\ CreateInternal(t, c, NoId, record)
    /\ ret' = [ret EXCEPT ![t] = next]

\* A creation whose change record names the new wrapper as its old_record.
CreateLogWithOld(t) ==
    /\ pc[t] = "create_log"
    /\ LET c == cur[t].cat
       IN /\ change_log' = [change_log EXCEPT ![c] =
                 Append(@, ChangeRecord(cur[t].id, cur[t].lsn, cur[t].new, cur[t].new))]
          /\ state_mutex' = [state_mutex EXCEPT ![c] = NoThread]
    /\ IF cur[t].proto = NoId
       THEN /\ pc' = [pc EXCEPT ![t] = ret[t]]
            /\ cur' = [cur EXCEPT ![t] = NoCur]
       ELSE /\ pc' = [pc EXCEPT ![t] = "cfp_insert"]
            /\ cur' = cur
    /\ UNCHANGED <<records, locks, wrappers, inst_mutex, next_lsn,
                   ret, frames, handles, reads>>
    /\ UNCHANGED <<prog, engVars, hist>>

\* write_change_log, lines 173-178, of a creation: push the change record and
\* drop the state lock guard; create returns, create_from_prototype goes on.
CreateLog(t) ==
    /\ pc[t] = "create_log"
    /\ LET c == cur[t].cat
       IN /\ change_log' = [change_log EXCEPT ![c] =
                 Append(@, ChangeRecord(cur[t].id, cur[t].lsn, NoWrapper, cur[t].new))]
          /\ state_mutex' = [state_mutex EXCEPT ![c] = NoThread]
    /\ IF cur[t].proto = NoId
       THEN /\ pc' = [pc EXCEPT ![t] = ret[t]]
            /\ cur' = [cur EXCEPT ![t] = NoCur]
       ELSE /\ pc' = [pc EXCEPT ![t] = "cfp_insert"]
            /\ cur' = cur
    /\ UNCHANGED <<records, locks, wrappers, inst_mutex, next_lsn,
                   ret, frames, handles, reads>>
    /\ UNCHANGED <<prog, engVars, hist>>

\* A create_from_prototype that takes the prototype's lock flag without
\* waiting for it.
DoCreateFromPrototypeNoWait(t, c, prototype_id, next) ==
    /\ prototype_id < Len(records[c])
    /\ StateFree(c)
    /\ locks' = [locks EXCEPT ![c][prototype_id + 1] = TRUE]
    /\ LET prototype_wrapper == records[c][prototype_id + 1]
       IN cur' = [cur EXCEPT ![t] = [NoCur EXCEPT
              !.cat = c, !.proto = prototype_id, !.pw = prototype_wrapper,
              !.inner = wrappers[prototype_wrapper].inner]]
    /\ pc' = [pc EXCEPT ![t] = "cfp_create"]
    /\ ret' = [ret EXCEPT ![t] = next]
    /\ UNCHANGED <<records, change_log, state_mutex, wrappers, inst_mutex, next_lsn,
                   frames, handles, reads>>

\* create_from_prototype, lines 63-64: get_internal(prototype_id, true) and the
\* clone of the prototype's inner record.
DoCreateFromPrototype(t, c, prototype_id, next) ==
    /\ prototype_id < Len(records[c])
    /\ GetInternalLock(c, prototype_id)
    /\ LET prototype_wrapper == records[c][prototype_id + 1]
       IN cur' = [cur EXCEPT ![t] = [NoCur EXCEPT
              !.cat = c, !.proto = prototype_id, !.pw = prototype_wrapper,
              !.inner = wrappers[prototype_wrapper].inner]]
    /\ pc' = [pc EXCEPT ![t] = "cfp_create"]
    /\ ret' = [ret EXCEPT ![t] = next]
    /\ UNCHANGED <<records, change_log, state_mutex, wrappers, inst_mutex, next_lsn,
                   frames, handles, reads>>

\* create_from_prototype, lines 65-69: create_internal of the instance.
CfpCreate(t) ==
    /\ pc[t] = "cfp_create"
    /\ CreateInternal(t, cur[t].cat, cur[t].proto, cur[t].inner)
    /\ UNCHANGED <<ret, prog, engVars, hist>>

\* create_from_prototype, lines 71-75: insert the instance id into the
\* prototype_instances of the wrapper read at line 63.
CfpInsert(t) ==
    /\ pc[t] = "cfp_insert"
    /\ InstFree(cur[t].pw)
    /\ wrappers' = [wrappers EXCEPT ![cur[t].pw].prototype_instances = @ \cup {cur[t].id}]
    /\ pc' = [pc EXCEPT ![t] = "cfp_unlock"]
    /\ UNCHANGED <<records, locks, change_log, state_mutex, inst_mutex, next_lsn,
                   ret, cur, frames, handles, reads, prog, engVars, hist>>

\* create_from_prototype, lines 77-78: unlock(prototype_id); return instance_id.
CfpUnlock(t) ==
    /\ pc[t] = "cfp_unlock"
    /\ Unlock(cur[t].cat, cur[t].proto)
    /\ pc' = [pc EXCEPT ![t] = ret[t]]
    /\ cur' = [cur EXCEPT ![t] = NoCur]
    /\ UNCHANGED <<records, change_log, state_mutex, wrappers, inst_mutex, next_lsn,
                   ret, frames, handles, reads, prog, engVars, hist>>

----------------------------------------------------------------------------
(* The counter program: library.rs, test_locking_consistency and            *)
(* test_unique_lsn.  Thread 0 registers the two catalogs, creates record 0  *)
(* of each and spawns the workers; while they run it creates CounterExtra   *)
(* more records.  A worker takes Person first and Dog second, as the test   *)
(* does.                                                                    *)
(* Every worker adds PersonStep to the age of Person 0 and DogStep to the   *)
(* dog_years of Dog 0, each under lock and commit.                          *)

CounterCatalogs == {"Person", "Dog"}
CounterWorkers == 1..CounterThreads

CounterField(c) == IF c = "Person" THEN "age" ELSE "dog_years"
CounterStep(c) == IF c = "Person" THEN PersonStep ELSE DogStep

InitCounter ==
    /\ records = [c \in CounterCatalogs |-> <<>>]
    /\ locks = [c \in CounterCatalogs |-> <<>>]
    /\ change_log = [c \in CounterCatalogs |-> <<>>]
    /\ state_mutex = [c \in CounterCatalogs |-> NoThread]
    /\ wrappers = <<>>
    /\ inst_mutex = {}
    /\ next_lsn = 0
    /\ pc = [t \in {0} \cup CounterWorkers |-> IF t = 0 THEN "idle" ELSE "unspawned"]
    /\ ret = [t \in {0} \cup CounterWorkers |-> ""]
    /\ cur = [t \in {0} \cup CounterWorkers |-> NoCur]
    /\ frames = [t \in {0} \cup CounterWorkers |-> <<>>]
    /\ handles = [t \in {0} \cup CounterWorkers |-> {}]
    /\ reads = [t \in {0} \cup CounterWorkers |-> {}]
    /\ prog = [t \in {0} \cup CounterWorkers |-> [NoProg EXCEPT !.todo = CounterCatalogs]]
    /\ undo_stack = <<>>
    /\ redo_stack = <<>>
    /\ watchers = <<>>
    /\ eng = NoEng
    /\ hist = <<>>

\* catalog.create(R::default()).
MainCreate(c) ==
    /\ pc[0] = "idle"
    /\ \/ records[c] = <<>>
       \/ /\ \A t \in CounterWorkers : pc[t] # "unspawned"
          /\ prog[0].n < CounterExtra
    /\ DoCreate(0, c, DefaultRecord(c), "idle")
    /\ prog' = [prog EXCEPT ![0].n = IF records[c] = <<>> THEN @ ELSE @ + 1]
    /\ UNCHANGED <<engVars, hist>>

\* thread::spawn, once both records exist.
Spawn ==
    /\ pc[0] = "idle"
    /\ \A c \in CounterCatalogs : Len(records[c]) > 0
    /\ \E t \in CounterWorkers : pc[t] = "unspawned"
    /\ pc' = [t \in Threads |-> IF pc[t] = "unspawned" THEN "idle" ELSE pc[t]]
    /\ UNCHANGED <<libVars, ret, cur, frames, handles, reads, prog, engVars, hist>>

\* let locked = catalog.lock(id).
WorkerLock(t, c) ==
    /\ pc[t] = "idle"
    /\ c \in prog[t].todo
    /\ c = "Dog" => "Person" \notin prog[t].todo
    /\ handles[t] = {}
    /\ DoLock(t, c, 0, "w_locked")
    /\ UNCHANGED <<prog, engVars, hist>>

\* let mut writable = locked.value.clone(); writable.field += k;
\* catalog.commit(&locked, writable).
WorkerCommit(t) ==
    /\ pc[t] = "w_locked"
    /\ \E h \in handles[t] :
          LET value == wrappers[h.value].inner
              f == CounterField(h.cat)
          IN DoCommit(t, h.cat, h.id,
                      [value EXCEPT ![f] = @ + CounterStep(h.cat)], "w_committed")
    /\ UNCHANGED <<prog, engVars, hist>>

\* The Locked handle goes out of scope.
WorkerDrop(t) ==
    /\ pc[t] = "w_committed"
    /\ \E h \in handles[t] :
          /\ DoDrop(t, h, "idle")
          /\ prog' = [prog EXCEPT ![t].todo = @ \ {h.cat}, ![t].n = @ + 1]
    /\ UNCHANGED <<engVars, hist>>

NextCounter ==
    \/ \E c \in CounterCatalogs : MainCreate(c)
    \/ Spawn
    \/ \E t \in CounterWorkers, c \in CounterCatalogs : WorkerLock(t, c)
    \/ \E t \in CounterWorkers : WorkerCommit(t)
    \/ \E t \in CounterWorkers : WorkerDrop(t)
    \/ \E t \in Threads : CommitInternalEnter(t)
    \/ \E t \in Threads : CommitInternalLog(t) /\ UNCHANGED hist
    \/ \E t \in Threads : CreateLog(t)

SpecCounter == InitCounter /\ [][NextCounter]_vars

CounterDone ==
    \A t \in CounterWorkers : pc[t] = "idle" /\ prog[t].todo = {}

\* C1: lost-update freedom.  When each of the CounterThreads workers has run
\* lock, read the locked value, add k, commit, drop on record 0 (k = PersonStep
\* on the age of Person 0, k = DogStep on the dog_years of Dog 0), the field is
\* its initial value 0 plus CounterThreads * k, whatever the interleaving.
C1_LostUpdateFreedom ==
    CounterDone =>
        /\ Inner("Person", 0)["age"] = 0 + CounterThreads * PersonStep
        /\ Inner("Dog", 0)["dog_years"] = 0 + CounterThreads * DogStep

C1_Witness ==
    /\ CounterDone
    /\ \A t \in CounterWorkers : prog[t].n = 2
    /\ Len(change_log["Person"]) > CounterThreads

\* The places <<catalog, position>> of all change records.
LoggedChanges ==
    UNION {{<<c, i>> : i \in 1..Len(change_log[c])} : c \in Catalogs}

\* C3: the LSNs of all change records of all catalogs of the Library are
\* pairwise distinct.
C3_LsnUnique ==
    \A x, y \in LoggedChanges :
        x # y => change_log[x[1]][x[2]].lsn # change_log[y[1]][y[2]].lsn

C3_Witness ==
    /\ Len(change_log["Person"]) >= 3
    /\ Len(change_log["Dog"]) >= 3
    /\ \E i \in 1..Len(change_log["Person"]), j \in 1..Len(change_log["Dog"]) :
          /\ i < Len(change_log["Person"])
          /\ change_log["Person"][i].lsn < change_log["Dog"][j].lsn
          /\ change_log["Dog"][j].lsn < change_log["Person"][i + 1].lsn

\* C4: the change log of every catalog is strictly increasing in LSN from its
\* first to its last entry.
C4_LsnIncreasing ==
    \A c \in Catalogs : \A i \in 1..Len(change_log[c]) :
        i > 1 => change_log[c][i - 1].lsn < change_log[c][i].lsn

\* A creation logged after a commit in the same catalog, with a change of
\* the other catalog between them in LSN order.
C4_Witness ==
    \E c \in Catalogs : \E i \in 1..Len(change_log[c]) :
        /\ i > 1
        /\ change_log[c][i - 1].old_record # NoWrapper
        /\ change_log[c][i].old_record = NoWrapper
        /\ change_log[c][i].lsn > change_log[c][i - 1].lsn + 1

----------------------------------------------------------------------------
(* The chain program: library.rs, test_prototypes and the head of           *)
(* test_prototypes_consistency.  One thread creates record 0, record 1 from *)
(* prototype 0 and record 2 from prototype 1, and then edits any field of   *)
(* any of the three under lock and commit, ChainMaxCommits times.           *)

ChainIds == {0, 1, 2}

InitLibrary(cats) ==
    /\ records = [c \in cats |-> <<>>]
    /\ locks = [c \in cats |-> <<>>]
    /\ change_log = [c \in cats |-> <<>>]
    /\ state_mutex = [c \in cats |-> NoThread]
    /\ wrappers = <<>>
    /\ inst_mutex = {}
    /\ next_lsn = 0

InitThreads(ts, first) ==
    /\ pc = [t \in ts |-> IF t = 0 THEN first ELSE "unspawned"]
    /\ ret = [t \in ts |-> ""]
    /\ cur = [t \in ts |-> NoCur]
    /\ frames = [t \in ts |-> <<>>]
    /\ handles = [t \in ts |-> {}]
    /\ reads = [t \in ts |-> {}]
    /\ prog = [t \in ts |-> NoProg]

InitNoEngine ==
    /\ undo_stack = <<>>
    /\ redo_stack = <<>>
    /\ watchers = <<>>
    /\ eng = NoEng

InitChain ==
    /\ InitLibrary({"Person"})
    /\ InitThreads({0}, "build")
    /\ InitNoEngine
    /\ hist = <<>>

\* catalog.create(Person::default()), then create_from_prototype of the last
\* record, until the chain is built; the thread goes on at built.
BuildChain(built) ==
    /\ pc[0] = "build"
    /\ LET n == Len(records["Person"])
           next == IF n + 1 = Cardinality(ChainIds) THEN built ELSE "build"
       IN IF n = 0
          THEN DoCreate(0, "Person", DefaultRecord("Person"), next)
          ELSE DoCreateFromPrototype(0, "Person", n - 1, next)
    /\ UNCHANGED <<prog, engVars, hist>>

ChainBuild == BuildChain("idle")

\* let person = catalog.lock(id).
ChainLock(id) ==
    /\ pc[0] = "idle"
    /\ prog[0].n < ChainMaxCommits
    /\ DoLock(0, "Person", id, "c_locked")
    /\ UNCHANGED <<prog, engVars, hist>>

\* let mut write = person.value.clone(); write.f = v; catalog.commit(&person, write).
\* hist keeps the inner record of every record as it is when commit is called.
ChainCommit(f, v) ==
    /\ pc[0] = "c_locked"
    /\ \E h \in handles[0] :
          /\ DoCommit(0, h.cat, h.id, [wrappers[h.value].inner EXCEPT ![f] = v],
                      "c_committed")
          /\ hist' = [id |-> h.id,
                      pre |-> [i \in ChainIds |-> Inner("Person", i)]]
    /\ prog' = [prog EXCEPT ![0].n = @ + 1]
    /\ UNCHANGED engVars

\* person goes out of scope.
ChainDrop ==
    /\ pc[0] = "c_committed"
    /\ \E h \in handles[0] : DoDrop(0, h, "idle")
    /\ UNCHANGED <<prog, engVars, hist>>

NextChain ==
    \/ ChainBuild
    \/ \E id \in ChainIds : ChainLock(id)
    \/ \E f \in FieldsOf("Person"), v \in Values : ChainCommit(f, v)
    \/ ChainDrop
    \/ CommitInternalEnter(0)
    \/ CommitInternalLog(0) /\ UNCHANGED hist
    \/ PropagateLock(0)
    \/ PropagateUnlock(0)
    \/ CfpCreate(0)
    \/ CreateLog(0)
    \/ CfpInsert(0)
    \/ CfpUnlock(0)

SpecChain == InitChain /\ [][NextChain]_vars

PrototypeOf(c, id) == wrappers[records[c][id + 1]].prototype_id

\* a is an ancestor of d in the prototype relation of catalog c.
RECURSIVE IsAncestor(_, _, _)
IsAncestor(c, a, d) ==
    LET p == PrototypeOf(c, d)
    IN p # NoId /\ (p = a \/ IsAncestor(c, a, p))

\* The commit called last by thread 0 has returned.
ChainReturned == pc[0] = "c_committed"

\* When a commit to record A of the chain has returned: for A and for each of
\* its descendants X with a child Y, every field F of Y that was equal to F of
\* X when commit was called has the value F of X has now, and every other
\* field of Y has the value it had.
ChainRule ==
    ChainReturned =>
        \A x, y \in ChainIds :
            (PrototypeOf("Person", y) = x /\ (x = hist.id \/ IsAncestor("Person", hist.id, x)))
            => \A f \in FieldsOf("Person") :
                  Inner("Person", y)[f] =
                      IF hist.pre[y][f] = hist.pre[x][f]
                      THEN Inner("Person", x)[f]
                      ELSE hist.pre[y][f]

\* A step of a propagation that replaces the wrapper of an instance: every
\* field of the instance that was equal to the field of the prototype's old
\* wrapper gets the field of the prototype's new wrapper, every other field
\* stays as it was just before the step.
PropagationStepRule ==
    \A t \in Threads :
        (pc[t] = "ci_enter" /\ pc'[t] = "ci_log" /\ frames[t] # <<>>)
        => LET f == Top(frames[t])
               pre == Inner(f.cat, cur[t].id)
               post == wrappers'[records'[f.cat][cur[t].id + 1]].inner
           IN \A F \in FieldsOf(f.cat) :
                 post[F] = IF pre[F] = wrappers[f.old].inner[F]
                           THEN wrappers[f.new].inner[F]
                           ELSE pre[F]

\* C6: the prototype propagation rule for the chain A -> B -> C.  After any
\* commit to a record of the chain returns, the rule holds between the
\* committed record and its instance and between that instance and its own
\* instance, for the values they had before the commit and have after it; and
\* every single propagation obeys the rule for the instance's value just
\* before and just after the propagation.
C6_PropagationRule == []ChainRule /\ [][PropagationStepRule]_vars

\* A commit to record 0 changed a field that record 1 had overridden and a
\* field that it had not, and record 2 changed with record 1.
C6_Witness ==
    /\ ChainReturned
    /\ hist.id = 0
    /\ \E f, g \in FieldsOf("Person") :
          /\ hist.pre[1][f] = hist.pre[0][f]
          /\ Inner("Person", 0)[f] # hist.pre[0][f]
          /\ Inner("Person", 2)[f] # hist.pre[2][f]
          /\ hist.pre[1][g] # hist.pre[0][g]

\* C7: a commit to a prototype that leaves its field F as it was leaves F of
\* every descendant as it was.
C7_UntouchedFieldKept ==
    ChainReturned =>
        \A f \in FieldsOf("Person") :
            Inner("Person", hist.id)[f] = hist.pre[hist.id][f]
            => \A d \in ChainIds :
                  IsAncestor("Person", hist.id, d)
                  => Inner("Person", d)[f] = hist.pre[d][f]

\* The commit to record 0 changed one field and left another as it was, which
\* record 1 had overridden and record 2 had overridden again.
C7_Witness ==
    /\ ChainReturned
    /\ hist.id = 0
    /\ \E f, g \in FieldsOf("Person") :
          /\ Inner("Person", 0)[f] = hist.pre[0][f]
          /\ hist.pre[1][f] # hist.pre[0][f]
          /\ Inner("Person", 0)[g] # hist.pre[0][g]
          /\ Inner("Person", 1)[g] # hist.pre[1][g]

----------------------------------------------------------------------------
(* The family program: library.rs, test_prototypes_consistency.  Thread 0   *)
(* builds the chain grandmother 0 -> mother 1 -> daughter 2, commits the    *)
(* grandmother's name and fav_food and the mother's fav_food, and spawns    *)
(* three workers: worker 1 writes the grandmother's age, worker 2 the       *)
(* mother's name, worker 3 the daughter's fav_food, in a loop; the workers  *)
(* run FamilyMaxCommits iterations between them, and every worker keeps its *)
(* Locked handle until the end of its iteration.                            *)

FamilyWorkers == {1, 2, 3}

FamilyTarget(t) == t - 1

FamilyField(t) ==
    IF t = 1 THEN "age" ELSE IF t = 2 THEN "name" ELSE "fav_food"

InitFamily ==
    /\ InitLibrary({"Person"})
    /\ InitThreads({0} \cup FamilyWorkers, "build")
    /\ InitNoEngine
    /\ hist = <<>>

FamilyBuild == BuildChain("s_lock_g")

HandleOn(t, id) == CHOOSE h \in handles[t] : h.id = id

\* Lines 150-161: the two commits of thread 0 before the workers start.
FamilySetup ==
    /\ \/ /\ pc[0] = "s_lock_g"
          /\ DoLock(0, "Person", 0, "s_commit_g")
       \/ /\ pc[0] = "s_commit_g"
          /\ DoCommit(0, "Person", 0,
                 [wrappers[HandleOn(0, 0).value].inner EXCEPT
                      !["name"] = Grandma, !["fav_food"] = OldTimeyPasta],
                 "s_lock_m")
       \/ /\ pc[0] = "s_lock_m"
          /\ DoLock(0, "Person", 1, "s_commit_m")
       \/ /\ pc[0] = "s_commit_m"
          /\ DoCommit(0, "Person", 1,
                 [wrappers[HandleOn(0, 0).value].inner EXCEPT !["fav_food"] = Pasta],
                 "s_drop_m")
       \/ /\ pc[0] = "s_drop_m"
          /\ DoDrop(0, HandleOn(0, 1), "s_drop_g")
       \/ /\ pc[0] = "s_drop_g"
          /\ DoDrop(0, HandleOn(0, 0), "spawn")
    /\ UNCHANGED <<prog, engVars, hist>>

\* thread::spawn of the three workers.
FamilySpawn ==
    /\ pc[0] = "spawn"
    /\ pc' = [t \in Threads |-> "idle"]
    /\ UNCHANGED <<libVars, ret, cur, frames, handles, reads, prog, engVars, hist>>

\* The iterations the workers have begun.
FamilyBegun ==
    prog[1].n + prog[2].n + prog[3].n
    + Cardinality({t \in FamilyWorkers : handles[t] # {}})

\* let grandmother = catalog.lock(grandmother_id), and likewise.
FamilyLock(t) ==
    /\ pc[t] = "idle"
    /\ FamilyBegun < FamilyMaxCommits
    /\ DoLock(t, "Person", FamilyTarget(t), "w_locked")
    /\ UNCHANGED <<prog, engVars, hist>>

\* let mut write = locked.value.clone(); write.field = rand;
\* catalog.commit(&locked, write).
FamilyCommit(t, v) ==
    /\ pc[t] = "w_locked"
    /\ \E h \in handles[t] :
          DoCommit(t, h.cat, h.id,
                   [wrappers[h.value].inner EXCEPT ![FamilyField(t)] = v], "w_check")
    /\ prog' = [prog EXCEPT ![t].val = v]
    /\ UNCHANGED <<engVars, hist>>

\* The end of the iteration: the Locked handle goes out of scope.
FamilyDrop(t) ==
    /\ pc[t] = "w_check"
    /\ \E h \in handles[t] : DoDrop(t, h, "idle")
    /\ prog' = [prog EXCEPT ![t].n = @ + 1]
    /\ UNCHANGED <<engVars, hist>>

NextFamily ==
    \/ FamilyBuild
    \/ FamilySetup
    \/ FamilySpawn
    \/ \E t \in FamilyWorkers : FamilyLock(t)
    \/ \E t \in FamilyWorkers, v \in Values : FamilyCommit(t, v)
    \/ \E t \in FamilyWorkers : FamilyDrop(t)
    \/ \E t \in Threads : CommitInternalEnter(t)
    \/ \E t \in Threads : CommitInternalLog(t) /\ UNCHANGED hist
    \/ \E t \in Threads : PropagateLock(t)
    \/ \E t \in Threads : PropagateUnlock(t)
    \/ CfpCreate(0)
    \/ CreateLog(0)
    \/ CfpInsert(0)
    \/ CfpUnlock(0)

SpecFamily == InitFamily /\ [][NextFamily]_vars

\* Worker t is between the return of a commit and its next call of commit.
FamilyWindow(t) ==
    \/ pc[t] = "w_check"
    \/ pc[t] \in {"idle", "w_locked"} /\ prog[t].n >= 1

RecordIds(c) == {i \in 0..(Len(records[c]) - 1) : TRUE}

\* C8: propagation is complete when commit returns and is not lost.  Between
\* the return of a worker's commit and its next commit, a get of the record it
\* committed and of every descendant of it returns the value the worker wrote
\* into its field, and that field of the ancestors is as thread 0 left it.
C8_PropagationComplete ==
    \A t \in FamilyWorkers :
        FamilyWindow(t) =>
            /\ \A d \in RecordIds("Person") :
                  (d = FamilyTarget(t) \/ IsAncestor("Person", FamilyTarget(t), d))
                  => Inner("Person", d)[FamilyField(t)] = prog[t].val
            /\ t = 2 => Inner("Person", 0)["name"] = Grandma
            /\ t = 3 => /\ Inner("Person", 0)["fav_food"] = OldTimeyPasta
                        /\ Inner("Person", 1)["fav_food"] = Pasta

\* All three workers are in their windows at once, each having written a
\* value its record did not have.
C8_Witness ==
    /\ \A t \in FamilyWorkers : pc[t] = "w_check"
    /\ prog[1].val # 0
    /\ prog[2].val # 0
    /\ prog[3].val # Pasta

----------------------------------------------------------------------------
(* Callers of the catalog's interface.  Thread 0 builds the chain           *)
(* 0 -> 1 -> 2 and starts the callers 1 and 2; a caller locks a record,     *)
(* commits a new age through the handle or not, and drops the handle, or    *)
(* creates a record from a prototype; the callers make ClientMaxCalls calls *)
(* of lock and create_from_prototype between them.                          *)

Clients == {1, 2}

InitClients ==
    /\ InitLibrary({"Person"})
    /\ InitThreads({0} \cup Clients, "build")
    /\ InitNoEngine
    /\ hist = <<>>

ClientBuild == BuildChain("spawn")

ClientSpawn ==
    /\ pc[0] = "spawn"
    /\ pc' = [t \in Threads |-> IF t = 0 THEN "joining" ELSE "idle"]
    /\ UNCHANGED <<libVars, ret, cur, frames, handles, reads, prog, engVars, hist>>

ClientCalls == prog[1].n + prog[2].n

\* catalog.lock(id)
ClientLock(t, id) ==
    /\ pc[t] = "idle"
    /\ handles[t] = {}
    /\ ClientCalls < ClientMaxCalls
    /\ DoLock(t, "Person", id, "idle")
    /\ prog' = [prog EXCEPT ![t].n = @ + 1]
    /\ UNCHANGED <<engVars, hist>>

\* catalog.commit(&locked, write), once through a handle, write being
\* locked.value with an age v the record does not have.
ClientCommit(t, v) ==
    /\ pc[t] = "idle"
    /\ \E h \in handles[t] :
          /\ wrappers[h.value].inner["age"] # v
          /\ h.value = records[h.cat][h.id + 1]
          /\ DoCommit(t, h.cat, h.id, [wrappers[h.value].inner EXCEPT !["age"] = v], "idle")
    /\ UNCHANGED <<prog, engVars, hist>>

\* the Locked handle goes out of scope
ClientDrop(t) ==
    /\ pc[t] = "idle"
    /\ \E h \in handles[t] : DoDrop(t, h, "idle")
    /\ UNCHANGED <<prog, engVars, hist>>

\* catalog.create_from_prototype(p)
ClientCreate(t, p) ==
    /\ pc[t] = "idle"
    /\ handles[t] = {}
    /\ ClientCalls < ClientMaxCalls
    /\ DoCreateFromPrototype(t, "Person", p, "idle")
    /\ prog' = [prog EXCEPT ![t].n = @ + 1]
    /\ UNCHANGED <<engVars, hist>>

NextClients ==
    \/ ClientBuild
    \/ ClientSpawn
    \/ \E t \in Clients, id \in RecordIds("Person") : ClientLock(t, id)
    \/ \E t \in Clients, v \in Values : ClientCommit(t, v)
    \/ \E t \in Clients : ClientDrop(t)
    \/ \E t \in Clients, p \in RecordIds("Person") : ClientCreate(t, p)
    \/ \E t \in Threads : CommitInternalEnter(t)
    \/ \E t \in Threads : CommitInternalLog(t) /\ UNCHANGED hist
    \/ \E t \in Threads : PropagateLock(t)
    \/ \E t \in Threads : PropagateUnlock(t)
    \/ \E t \in Threads : CfpCreate(t)
    \/ \E t \in Threads : CreateLog(t)
    \/ \E t \in Threads : CfpInsert(t)
    \/ \E t \in Threads : CfpUnlock(t)

SpecClients == InitClients /\ [][NextClients]_vars

\* Thread t holds a Locked handle on record r of catalog c.
HandleHolds(t, c, r) == \E h \in handles[t] : h.cat = c /\ h.id = r

\* Thread t runs create_from_prototype(r), between its lock and its unlock.
CfpHolds(t, c, r) ==
    /\ pc[t] \in {"cfp_create", "create_log", "cfp_insert", "cfp_unlock"}
    /\ cur[t].cat = c
    /\ cur[t].proto = r

\* The frames of thread t's commit that have locked r as the instance they
\* propagate into and have not unlocked it yet.
PropFrames(t, c, r) ==
    {k \in 1..Len(frames[t]) :
        /\ frames[t][k].cat = c
        /\ frames[t][k].child = r
        /\ (k < Len(frames[t]) \/ pc[t] \in {"ci_enter", "ci_unlock"})}

Holders(c, r) ==
    {<<t, "handle", 0>> : t \in {u \in Threads : HandleHolds(u, c, r)}}
    \cup {<<t, "create_from_prototype", 0>> : t \in {u \in Threads : CfpHolds(u, c, r)}}
    \cup UNION {{<<t, "propagation", k>> : k \in PropFrames(t, c, r)} : t \in Threads}

\* Thread t takes the step of commit_internal that replaces r's wrapper.
Replaces(t, c, r) ==
    /\ pc[t] = "ci_enter"
    /\ pc'[t] = "ci_log"
    /\ cur[t].cat = c
    /\ cur[t].id = r

EntriesOf(c, r) == SelectSeq(change_log[c], LAMBDA e : e.record_id = r)

\* C5: whenever no create or commit is inside its critical section, the
\* change records of each record form a chain: the first has no old wrapper,
\* each later one has for old wrapper the new wrapper of the one before, and
\* the last one's new wrapper is the record's current wrapper; so every
\* replacement of a wrapper appended exactly one change record, with the
\* wrapper before as old and the wrapper after as new.
C5_OneChangePerCommit ==
    \A c \in Catalogs :
        StateFree(c) =>
            \A r \in RecordIds(c) :
                LET es == EntriesOf(c, r)
                IN /\ Len(es) >= 1
                   /\ es[1].old_record = NoWrapper
                   /\ \A i \in 2..Len(es) : es[i].old_record = es[i - 1].new_record
                   /\ \A i \in 1..Len(es) : es[i].new_record # es[i].old_record
                   /\ es[Len(es)].new_record = records[c][r + 1]

\* One caller has created a record from a prototype and the other has
\* committed, the commit having propagated into an instance.
C5_Witness ==
    /\ StateFree("Person")
    /\ \A t \in Clients : pc[t] = "idle" /\ handles[t] = {}
    /\ \E r \in RecordIds("Person") :
          /\ PrototypeOf("Person", r) # NoId
          /\ Len(EntriesOf("Person", r)) >= 2
    /\ \A t \in Clients : prog[t].n >= 1
    /\ Len(records["Person"]) > 3

----------------------------------------------------------------------------
(* undo.rs: the UndoRedo engine.  Its owner is thread 0.  An Option<R> is   *)
(* a sequence of length 0 or 1.  eng holds the locals of the running call   *)
(* (op, the watcher index i, the undoables collected so far acc, the popped *)
(* undoable top, the commits it has still to replay) and the scope that     *)
(* borrows the engine.  The actions of the engine leave prog and hist to    *)
(* the program that runs them.                                              *)

Owner == 0

\* consume_change_log, lines 106-111: the UndoRecord of a change of catalog c.
UndoRecord(c, change) ==
    [kind |-> "UndoRecord",
     cat |-> c,
     record_id |-> change.record_id,
     old_record |-> IF change.old_record = NoWrapper
                    THEN <<>>
                    ELSE <<wrappers[change.old_record].inner>>,
     new_record |-> wrappers[change.new_record].inner,
     lsn |-> change.lsn]

UndoableBundle(undoables) == [kind |-> "UndoableBundle", undoables |-> undoables]

\* Undoable::lsn
Lsn(u) ==
    IF u.kind = "UndoRecord" THEN u.lsn ELSE u.undoables[Len(u.undoables)].lsn

Replay(u, value) == [cat |-> u.cat, record_id |-> u.record_id, value |-> value]

UndoRecordUndoNew(u) == <<Replay(u, u.new_record)>>

\* UndoRecord::undo: the commits it makes, as a sequence.
UndoRecordUndo(u) ==
    IF u.old_record # <<>> THEN <<Replay(u, u.old_record[1])>> ELSE <<>>

\* A redo that, like undo, does nothing for a record without old_record.
UndoRecordRedoSkip(u) ==
    IF u.old_record # <<>> THEN <<Replay(u, u.new_record)>> ELSE <<>>

\* UndoRecord::redo
UndoRecordRedo(u) == <<Replay(u, u.new_record)>>

Reverse(s) == [k \in 1..Len(s) |-> s[Len(s) + 1 - k]]

RECURSIVE UndoAll(_)
UndoAll(us) ==
    IF us = <<>> THEN <<>> ELSE UndoRecordUndo(Head(us)) \o UndoAll(Tail(us))

RECURSIVE RedoAll(_)
RedoAll(us) ==
    IF us = <<>> THEN <<>> ELSE UndoRecordRedo(Head(us)) \o RedoAll(Tail(us))

\* An undo of a bundle that takes the members in order.
UndoableUndoForward(u) ==
    IF u.kind = "UndoRecord" THEN UndoRecordUndo(u) ELSE UndoAll(u.undoables)

\* Undoable::undo of an UndoRecord or of a bundle (members in reverse).
UndoableUndo(u) ==
    IF u.kind = "UndoRecord" THEN UndoRecordUndo(u) ELSE UndoAll(Reverse(u.undoables))

\* Undoable::redo of an UndoRecord or of a bundle (members in order).
UndoableRedo(u) ==
    IF u.kind = "UndoRecord" THEN UndoRecordRedo(u) ELSE RedoAll(u.undoables)

\* Insert u into the sorted sequence s behind every element that is not
\* greater (sort_by is stable).
RECURSIVE InsertByLsn(_, _)
InsertByLsn(s, u) ==
    IF s = <<>> THEN <<u>>
    ELSE IF Lsn(Head(s)) <= Lsn(u) THEN <<Head(s)>> \o InsertByLsn(Tail(s), u)
    ELSE <<u>> \o s

RECURSIVE SortByLsn(_)
SortByLsn(s) ==
    IF s = <<>> THEN <<>>
    ELSE InsertByLsn(SortByLsn(SubSeq(s, 1, Len(s) - 1)), s[Len(s)])

\* Catalog::watermark
Watermark(c) == Len(change_log[c])

\* Catalog::changes(start_point, end_point), as UndoRecords
Changes(c, start_point, end_point) ==
    [k \in 1..(end_point - start_point) |-> UndoRecord(c, change_log[c][start_point + k])]

\* The call returns to the owner's program.
EngineReturn(scope) ==
    /\ pc' = [pc EXCEPT ![Owner] = "idle"]
    /\ eng' = [NoEng EXCEPT !.scope = scope]

\* A drop and a replay that end without advance_watermarks.
EngineNoAdvance(scope) == EngineReturn(scope)

\* advance_watermarks starts: with no watcher there is nothing to do.
EngineAdvance(scope) ==
    IF watchers = <<>>
    THEN EngineReturn(scope)
    ELSE /\ pc' = [pc EXCEPT ![Owner] = "e_advance"]
         /\ eng' = [eng EXCEPT !.i = 1, !.acc = <<>>, !.top = <<>>, !.replay = <<>>]

\* UndoRedo::watch::<R>, R being the type of catalog c.
Watch(c) ==
    /\ pc[Owner] = "idle"
    /\ eng.scope = ""
    /\ StateFree(c)
    /\ watchers' = Append(watchers, [cat |-> c, cur_watermark |-> Watermark(c)])
    /\ UNCHANGED <<libVars, pc, ret, cur, frames, handles, reads, undo_stack, redo_stack, eng>>

\* A pause_scope() and combine_scope() that enter the scope without
\* consume_change_logs.
EngineCallNoConsume(op) ==
    /\ pc[Owner] = "idle"
    /\ handles[Owner] = {}
    /\ eng.scope = ""
    /\ eng' = [eng EXCEPT !.op = op, !.i = 1, !.acc = <<>>]
    /\ pc' = [pc EXCEPT ![Owner] =
                 IF watchers = <<>> \/ op \in {"pause_scope", "combine_scope"}
                 THEN "e_dispatch" ELSE "e_consume"]
    /\ UNCHANGED <<libVars, ret, cur, frames, handles, reads, undo_stack, redo_stack, watchers>>

\* The owner calls undo(), redo(), pause_scope() or combine_scope(): the call
\* starts with undoables_for_consumption.
EngineCall(op) ==
    /\ pc[Owner] = "idle"
    /\ handles[Owner] = {}
    /\ eng.scope = ""
    /\ eng' = [eng EXCEPT !.op = op, !.i = 1, !.acc = <<>>]
    /\ pc' = [pc EXCEPT ![Owner] = IF watchers = <<>> THEN "e_dispatch" ELSE "e_consume"]
    /\ UNCHANGED <<libVars, ret, cur, frames, handles, reads, undo_stack, redo_stack, watchers>>

\* The scope is dropped: advance_watermarks for a PauseScope,
\* drop_combine_scope for a CombineScope.
ScopeDrop ==
    /\ pc[Owner] = "idle"
    /\ handles[Owner] = {}
    /\ eng.scope # ""
    /\ IF eng.scope = "pause"
       THEN EngineAdvance("")
       ELSE /\ eng' = [eng EXCEPT !.op = "drop_combine", !.i = 1, !.acc = <<>>]
            /\ pc' = [pc EXCEPT ![Owner] =
                         IF watchers = <<>> THEN "e_dispatch" ELSE "e_consume"]
    /\ UNCHANGED <<libVars, ret, cur, frames, handles, reads, undo_stack, redo_stack, watchers>>

\* undoables_for_consumption, line 223: new changes clear the redo stack.
RedoAfter(new_changes) == IF new_changes # <<>> THEN <<>> ELSE redo_stack

\* undoables_for_consumption, lines 220-226, for the watcher eng.i:
\* consume_change_log reads the watermark and the changes up to it.
ConsumeChangeLog ==
    /\ pc[Owner] = "e_consume"
    /\ LET w == watchers[eng.i]
           new_watermark == Watermark(w.cat)
           new_changes == Changes(w.cat, w.cur_watermark, new_watermark)
       IN /\ StateFree(w.cat)
          /\ redo_stack' = RedoAfter(new_changes)
          /\ watchers' = [watchers EXCEPT ![eng.i].cur_watermark = new_watermark]
          /\ eng' = [eng EXCEPT !.acc = @ \o new_changes, !.i = @ + 1]
    /\ pc' = [pc EXCEPT ![Owner] = IF eng.i = Len(watchers) THEN "e_dispatch" ELSE "e_consume"]
    /\ UNCHANGED <<libVars, ret, cur, frames, handles, reads, undo_stack>>

\* A replay that, when done, pushes the undoable back where it came from.
EngineReplayBack(op, top, replay, undo, redo) ==
    IF replay = <<>>
    THEN /\ undo_stack' = IF op = "undo" THEN Append(undo, top) ELSE undo
         /\ redo_stack' = IF op = "undo" THEN redo ELSE Append(redo, top)
         /\ EngineAdvance("")
    ELSE /\ undo_stack' = undo
         /\ redo_stack' = redo
         /\ eng' = [eng EXCEPT !.top = <<top>>, !.replay = replay, !.acc = <<>>]
         /\ pc' = [pc EXCEPT ![Owner] = "e_lock"]

\* The popped undoable top has the commits replay to make; with none left it
\* is pushed onto the other stack and advance_watermarks starts.  undo and
\* redo are the stacks without top.
EngineReplay(op, top, replay, undo, redo) ==
    IF replay = <<>>
    THEN /\ undo_stack' = IF op = "undo" THEN undo ELSE Append(undo, top)
         /\ redo_stack' = IF op = "undo" THEN Append(redo, top) ELSE redo
         /\ EngineAdvance("")
    ELSE /\ undo_stack' = undo
         /\ redo_stack' = redo
         /\ eng' = [eng EXCEPT !.top = <<top>>, !.replay = replay, !.acc = <<>>]
         /\ pc' = [pc EXCEPT ![Owner] = "e_lock"]

\* undoables_for_consumption, line 227
Sorted(s) == SortByLsn(s)

\* An undo that, finding the undo stack empty, takes the top of the redo
\* stack instead.
DispatchEitherStack ==
    /\ pc[Owner] = "e_dispatch"
    /\ LET undoables == Sorted(eng.acc)
           stack == undo_stack \o undoables
       IN CASE eng.op = "undo" ->
                 IF stack = <<>>
                 THEN IF redo_stack = <<>>
                      THEN /\ UNCHANGED <<undo_stack, redo_stack>>
                           /\ EngineReturn("")
                      ELSE EngineReplay("redo", redo_stack[Len(redo_stack)],
                                        UndoableRedo(redo_stack[Len(redo_stack)]),
                                        stack, SubSeq(redo_stack, 1, Len(redo_stack) - 1))
                 ELSE EngineReplay("undo", stack[Len(stack)],
                                   UndoableUndo(stack[Len(stack)]),
                                   SubSeq(stack, 1, Len(stack) - 1), redo_stack)
            [] eng.op = "redo" ->
                 IF redo_stack = <<>>
                 THEN /\ undo_stack' = stack
                      /\ UNCHANGED redo_stack
                      /\ EngineReturn("")
                 ELSE EngineReplay("redo", redo_stack[Len(redo_stack)],
                                   UndoableRedo(redo_stack[Len(redo_stack)]),
                                   stack, SubSeq(redo_stack, 1, Len(redo_stack) - 1))
            [] eng.op = "pause_scope" ->
                 /\ undo_stack' = stack
                 /\ UNCHANGED redo_stack
                 /\ EngineReturn("pause")
            [] eng.op = "combine_scope" ->
                 /\ undo_stack' = stack
                 /\ UNCHANGED redo_stack
                 /\ EngineReturn("combine")
            [] eng.op = "drop_combine" ->
                 /\ undo_stack' = IF undoables # <<>>
                                  THEN Append(undo_stack, UndoableBundle(undoables))
                                  ELSE undo_stack
                 /\ UNCHANGED redo_stack
                 /\ EngineReturn("")
    /\ UNCHANGED <<libVars, ret, cur, frames, handles, reads, watchers>>

\* A drop_combine_scope that pushes the bundle whatever it holds.
DispatchAlwaysBundle ==
    /\ pc[Owner] = "e_dispatch"
    /\ LET undoables == Sorted(eng.acc)
           stack == undo_stack \o undoables
       IN CASE eng.op = "undo" ->
                 IF stack = <<>>
                 THEN /\ UNCHANGED <<undo_stack, redo_stack>>
                      /\ EngineReturn("")
                 ELSE EngineReplay("undo", stack[Len(stack)],
                                   UndoableUndo(stack[Len(stack)]),
                                   SubSeq(stack, 1, Len(stack) - 1), redo_stack)
            [] eng.op = "redo" ->
                 IF redo_stack = <<>>
                 THEN /\ undo_stack' = stack
                      /\ UNCHANGED redo_stack
                      /\ EngineReturn("")
                 ELSE EngineReplay("redo", redo_stack[Len(redo_stack)],
                                   UndoableRedo(redo_stack[Len(redo_stack)]),
                                   stack, SubSeq(redo_stack, 1, Len(redo_stack) - 1))
            [] eng.op = "pause_scope" ->
                 /\ undo_stack' = stack
                 /\ UNCHANGED redo_stack
                 /\ EngineReturn("pause")
            [] eng.op = "combine_scope" ->
                 /\ undo_stack' = stack
                 /\ UNCHANGED redo_stack
                 /\ EngineReturn("combine")
            [] eng.op = "drop_combine" ->
                 /\ undo_stack' = Append(undo_stack, UndoableBundle(undoables))
                 /\ UNCHANGED redo_stack
                 /\ EngineReturn("")
    /\ UNCHANGED <<libVars, ret, cur, frames, handles, reads, watchers>>

\* The rest of the call once every watcher is consumed: lines 173-176 of
\* undo, 182-185 of redo, 191 and 196 of the scopes, 207-210 of
\* drop_combine_scope.
Dispatch ==
    /\ pc[Owner] = "e_dispatch"
    /\ LET undoables == Sorted(eng.acc)
           stack == undo_stack \o undoables
       IN CASE eng.op = "undo" ->
                 IF stack = <<>>
                 THEN /\ UNCHANGED <<undo_stack, redo_stack>>
                      /\ EngineReturn("")
                 ELSE EngineReplay("undo", stack[Len(stack)],
                                   UndoableUndo(stack[Len(stack)]),
                                   SubSeq(stack, 1, Len(stack) - 1), redo_stack)
            [] eng.op = "redo" ->
                 IF redo_stack = <<>>
                 THEN /\ undo_stack' = stack
                      /\ UNCHANGED redo_stack
                      /\ EngineReturn("")
                 ELSE EngineReplay("redo", redo_stack[Len(redo_stack)],
                                   UndoableRedo(redo_stack[Len(redo_stack)]),
                                   stack, SubSeq(redo_stack, 1, Len(redo_stack) - 1))
            [] eng.op = "pause_scope" ->
                 /\ undo_stack' = stack
                 /\ UNCHANGED redo_stack
                 /\ EngineReturn("pause")
            [] eng.op = "combine_scope" ->
                 /\ undo_stack' = stack
                 /\ UNCHANGED redo_stack
                 /\ EngineReturn("combine")
            [] eng.op = "drop_combine" ->
                 /\ undo_stack' = IF undoables # <<>>
                                  THEN Append(undo_stack, UndoableBundle(undoables))
                                  ELSE undo_stack
                 /\ UNCHANGED redo_stack
                 /\ EngineReturn("")
    /\ UNCHANGED <<libVars, ret, cur, frames, handles, reads, watchers>>

\* UndoRecord::undo and redo, lines 28 and 35: catalog.lock(self.record_id)
ReplayLock ==
    /\ pc[Owner] = "e_lock"
    /\ DoLock(Owner, Head(eng.replay).cat, Head(eng.replay).record_id, "e_commit")
    /\ UNCHANGED engVars

\* lines 29 and 36: catalog.commit(&lock, record.clone())
ReplayCommit ==
    /\ pc[Owner] = "e_commit"
    /\ DoCommit(Owner, Head(eng.replay).cat, Head(eng.replay).record_id,
                Head(eng.replay).value, "e_drop")
    /\ UNCHANGED engVars

\* lines 30 and 37: the Locked handle is dropped; then the next member of the
\* bundle, or the push of lines 175 and 184 and advance_watermarks.
ReplayDrop ==
    /\ pc[Owner] = "e_drop"
    /\ \E h \in handles[Owner] :
          /\ h.cat = Head(eng.replay).cat
          /\ h.id = Head(eng.replay).record_id
          /\ Unlock(h.cat, h.id)
          /\ handles' = [handles EXCEPT ![Owner] = @ \ {h}]
    /\ IF Tail(eng.replay) = <<>>
       THEN EngineReplay(eng.op, eng.top[1], <<>>, undo_stack, redo_stack)
       ELSE /\ eng' = [eng EXCEPT !.replay = Tail(@)]
            /\ pc' = [pc EXCEPT ![Owner] = "e_lock"]
            /\ UNCHANGED <<undo_stack, redo_stack>>
    /\ UNCHANGED <<records, change_log, state_mutex, wrappers, inst_mutex, next_lsn,
                   ret, cur, frames, reads, watchers>>

\* An advance_watermarks that leaves the watermark of watcher eng.i alone.
AdvanceWatermarkKept ==
    /\ pc[Owner] = "e_advance"
    /\ StateFree(watchers[eng.i].cat)
    /\ IF eng.i = Len(watchers)
       THEN EngineReturn("")
       ELSE /\ eng' = [eng EXCEPT !.i = @ + 1]
            /\ pc' = pc
    /\ UNCHANGED <<libVars, ret, cur, frames, handles, reads, undo_stack, redo_stack, watchers>>

\* advance_watermarks, lines 200-202, for the watcher eng.i.
AdvanceWatermark ==
    /\ pc[Owner] = "e_advance"
    /\ StateFree(watchers[eng.i].cat)
    /\ watchers' = [watchers EXCEPT ![eng.i].cur_watermark = Watermark(watchers[eng.i].cat)]
    /\ IF eng.i = Len(watchers)
       THEN EngineReturn("")
       ELSE /\ eng' = [eng EXCEPT !.i = @ + 1]
            /\ pc' = pc
    /\ UNCHANGED <<libVars, ret, cur, frames, handles, reads, undo_stack, redo_stack>>

----------------------------------------------------------------------------
(* The editor program: undo.rs, test_undo_redo and test_clear_redo_stack.   *)
(* The owner registers Person, watches it before or after creating one      *)
(* record, edits the record's name in lock, commit, drop blocks (at most    *)
(* UndoMaxEdits times) and calls undo and redo (UndoMaxCalls calls).        *)
(* hist keeps what the owner did: entries is the linear history of its      *)
(* watched edits, an edit made after undos dropping the undone ones, pos    *)
(* the number of entries in effect, ops the calls made.                     *)

Hist0 == [entries |-> <<>>, pos |-> 0, ops |-> <<>>, fresh |-> FALSE, due |-> FALSE]

Edit(kind, old, new) == [kind |-> kind, old |-> old, new |-> new]

HistEdit(e) ==
    IF watchers = <<>>
    THEN hist
    ELSE [hist EXCEPT !.entries = Append(SubSeq(@, 1, hist.pos), e), !.pos = @ + 1]

HistCall(op) ==
    [hist EXCEPT !.ops = Append(@, op),
                 !.due = hist.fresh,
                 !.pos = IF op = "undo" /\ @ > 0 THEN @ - 1
                         ELSE IF op = "redo" /\ @ < Len(hist.entries) THEN @ + 1
                         ELSE @]

InitUndo ==
    /\ InitLibrary({"Person"})
    /\ InitThreads({Owner}, "idle")
    /\ InitNoEngine
    /\ hist = Hist0

\* undo_redo.watch::<Person>()
EditorWatch ==
    /\ watchers = <<>>
    /\ Watch("Person")
    /\ UNCHANGED <<prog, hist>>

\* catalog.create(Person::new(..))
EditorCreate ==
    /\ pc[Owner] = "idle"
    /\ records["Person"] = <<>>
    /\ DoCreate(Owner, "Person", DefaultRecord("Person"), "idle")
    /\ hist' = HistEdit(Edit("create", <<>>, DefaultRecord("Person")))
    /\ UNCHANGED <<prog, engVars>>

\* let person = catalog.lock(id)
EditorLock ==
    /\ pc[Owner] = "idle"
    /\ handles[Owner] = {}
    /\ prog[Owner].n < UndoMaxEdits
    /\ DoLock(Owner, "Person", 0, "u_locked")
    /\ UNCHANGED <<prog, engVars, hist>>

\* write.name = v; catalog.commit(&person, write)
EditorCommit(v) ==
    /\ pc[Owner] = "u_locked"
    /\ \E h \in handles[Owner] :
          LET write == [wrappers[h.value].inner EXCEPT !["name"] = v]
          IN /\ DoCommit(Owner, h.cat, h.id, write, "u_committed")
             /\ hist' = HistEdit(Edit("commit", <<Inner(h.cat, h.id)>>, write))
    /\ prog' = [prog EXCEPT ![Owner].n = @ + 1]
    /\ UNCHANGED engVars

\* the end of the block
EditorDrop ==
    /\ pc[Owner] = "u_committed"
    /\ \E h \in handles[Owner] : DoDrop(Owner, h, "idle")
    /\ UNCHANGED <<prog, engVars, hist>>

\* undo_redo.undo(), undo_redo.redo(), or the entry of a scope
EditorCall(op) ==
    /\ prog[Owner].val < UndoMaxCalls
    /\ EngineCall(op)
    /\ prog' = [prog EXCEPT ![Owner].val = @ + 1]
    /\ hist' = HistCall(op)

\* Thread t's commit is one the program made, not a replay of the engine.
Ordinary(t) == t # Owner \/ ret[Owner] = "u_committed"

\* The change record of a commit is pushed; hist.fresh notes an ordinary edit
\* pushed outside a pause scope while the redo stack is not empty.
EditorLog(t) ==
    /\ CommitInternalLog(t)
    /\ hist' = IF /\ Ordinary(t)
                  /\ redo_stack # <<>>
                  /\ eng.scope # "pause"
                  /\ eng.op # "pause_scope"
               THEN [hist EXCEPT !.fresh = TRUE]
               ELSE hist

\* A watcher is consumed; new changes clear the redo stack, which settles
\* the edits noted in hist.
EditorConsume ==
    /\ ConsumeChangeLog
    /\ hist' = IF eng'.acc # eng.acc
               THEN [hist EXCEPT !.fresh = FALSE, !.due = FALSE]
               ELSE hist
    /\ UNCHANGED prog

NextUndo ==
    \/ EditorWatch
    \/ EditorCreate
    \/ EditorLock
    \/ \E v \in Values : EditorCommit(v)
    \/ EditorDrop
    \/ \E op \in {"undo", "redo"} : EditorCall(op)
    \/ EditorLog(Owner)
    \/ EditorConsume
    \/ Dispatch /\ UNCHANGED <<prog, hist>>
    \/ ReplayLock /\ UNCHANGED <<prog, hist>>
    \/ ReplayCommit /\ UNCHANGED <<prog, hist>>
    \/ ReplayDrop /\ UNCHANGED <<prog, hist>>
    \/ AdvanceWatermark /\ UNCHANGED <<prog, hist>>
    \/ CommitInternalEnter(Owner)
    \/ CreateLog(Owner)

SpecUndo == InitUndo /\ [][NextUndo]_vars

\* C9: commits on one watched record without instances, outside any scope,
\* by the only thread.  Between the calls, the record has the value at
\* position pos of the linear history: after the k-th consecutive undo the
\* entry at pos + 1 is the k-th most recent commit, and the record has the
\* value it had just before that commit; after a redo the entry at pos is the
\* commit that the undo before it had undone, and the record has the value
\* just after that commit.
C9_UndoRedoValues ==
    (pc[Owner] = "idle" /\ records["Person"] # <<>>) =>
        /\ (hist.pos < Len(hist.entries) /\ hist.entries[hist.pos + 1].kind = "commit")
           => <<Inner("Person", 0)>> = hist.entries[hist.pos + 1].old
        /\ (hist.pos >= 1 /\ hist.entries[hist.pos].kind = "commit")
           => Inner("Person", 0) = hist.entries[hist.pos].new

\* Two commits that changed the name, then undo, undo, redo.
C9_Witness ==
    /\ pc[Owner] = "idle"
    /\ hist.ops = <<"undo", "undo", "redo">>
    /\ Len(hist.entries) >= 2
    /\ hist.pos = Len(hist.entries) - 1
    /\ \A k \in (Len(hist.entries) - 1)..Len(hist.entries) :
          /\ hist.entries[k].kind = "commit"
          /\ hist.entries[k].old # <<hist.entries[k].new>>
    /\ Inner("Person", 0) = hist.entries[hist.pos].new
    /\ Len(redo_stack) = 1

----------------------------------------------------------------------------
(* The editor program with a second thread: the owner also enters and       *)
(* leaves pause and combine scopes, and thread 1 edits the record's name    *)
(* in lock, commit, drop blocks of its own (RaceMaxEdits times).            *)

Racer == 1

InitRace ==
    /\ InitLibrary({"Person"})
    /\ pc = [t \in {Owner, Racer} |-> "idle"]
    /\ ret = [t \in {Owner, Racer} |-> ""]
    /\ cur = [t \in {Owner, Racer} |-> NoCur]
    /\ frames = [t \in {Owner, Racer} |-> <<>>]
    /\ handles = [t \in {Owner, Racer} |-> {}]
    /\ reads = [t \in {Owner, Racer} |-> {}]
    /\ prog = [t \in {Owner, Racer} |-> NoProg]
    /\ InitNoEngine
    /\ hist = Hist0

\* the PauseScope or CombineScope goes out of scope
EditorScopeDrop ==
    /\ ScopeDrop
    /\ UNCHANGED <<prog, hist>>

RaceLock ==
    /\ pc[Racer] = "idle"
    /\ prog[Racer].n < RaceMaxEdits
    /\ DoLock(Racer, "Person", 0, "r_locked")
    /\ UNCHANGED <<prog, engVars, hist>>

RaceCommit(v) ==
    /\ pc[Racer] = "r_locked"
    /\ \E h \in handles[Racer] :
          DoCommit(Racer, h.cat, h.id, [wrappers[h.value].inner EXCEPT !["name"] = v],
                   "r_committed")
    /\ prog' = [prog EXCEPT ![Racer].n = @ + 1]
    /\ UNCHANGED <<engVars, hist>>

RaceDrop ==
    /\ pc[Racer] = "r_committed"
    /\ \E h \in handles[Racer] : DoDrop(Racer, h, "idle")
    /\ UNCHANGED <<prog, engVars, hist>>

NextRace ==
    \/ EditorWatch
    \/ EditorCreate
    \/ EditorLock
    \/ \E v \in Values : EditorCommit(v)
    \/ EditorDrop
    \/ \E op \in {"undo", "redo", "pause_scope", "combine_scope"} : EditorCall(op)
    \/ EditorScopeDrop
    \/ RaceLock
    \/ \E v \in Values : RaceCommit(v)
    \/ RaceDrop
    \/ \E t \in Threads : EditorLog(t)
    \/ EditorConsume
    \/ Dispatch /\ UNCHANGED <<prog, hist>>
    \/ ReplayLock /\ UNCHANGED <<prog, hist>>
    \/ ReplayCommit /\ UNCHANGED <<prog, hist>>
    \/ ReplayDrop /\ UNCHANGED <<prog, hist>>
    \/ AdvanceWatermark /\ UNCHANGED <<prog, hist>>
    \/ \E t \in Threads : CommitInternalEnter(t)
    \/ CreateLog(Owner)

SpecRace == InitRace /\ [][NextRace]_vars

\* C10: when an ordinary edit was committed outside a pause scope while the
\* redo stack was not empty, the next call of undo, redo, pause_scope or
\* combine_scope has emptied the redo stack when its reconciliation is done,
\* before it pops or pushes anything.
C10_NewEditClearsRedo ==
    ( /\ pc[Owner] = "e_dispatch"
      /\ eng.op \in {"undo", "redo", "pause_scope", "combine_scope"}
      /\ hist.due )
    => redo_stack = <<>>

----------------------------------------------------------------------------
(* The editor program with scopes and a prototype: undo.rs, test_pause_scope *)
(* and test_combine_scope, on a Person 0 and an instance 1 created from it. *)
(* The owner builds the two records, watches Person, then edits the name of *)
(* either record in lock, commit, drop blocks (ScopeMaxEdits edits), calls  *)
(* undo and redo and enters and leaves pause and combine scopes             *)
(* (ScopeMaxCalls calls).  hist keeps the LSNs of the change records pushed *)
(* inside a pause scope, inside a combine scope and by the engine's         *)
(* replays, the values of the records when the last combine scope was       *)
(* entered and left, and how far the owner is in the sequence combine       *)
(* scope, undo, redo.                                                       *)

ScopeIds == {0, 1}

HistScope0 ==
    [paused |-> {}, replayed |-> {}, combined |-> {},
     phase |-> "", entry |-> <<>>, exit |-> <<>>]

\* The inner values of all records of Person, by id + 1.
Snapshot == [k \in 1..Len(records["Person"]) |-> Inner("Person", k - 1)]

InitScope ==
    /\ InitLibrary({"Person"})
    /\ InitThreads({Owner}, "build")
    /\ InitNoEngine
    /\ hist = HistScope0

\* catalog.create(..); catalog.create_from_prototype(0)
ScopeBuild ==
    /\ pc[Owner] = "build"
    /\ IF records["Person"] = <<>>
       THEN DoCreate(Owner, "Person", DefaultRecord("Person"), "build")
       ELSE DoCreateFromPrototype(Owner, "Person", 0, "watch")
    /\ UNCHANGED <<prog, engVars, hist>>

\* undo_redo.watch::<Person>()
ScopeWatch ==
    /\ pc[Owner] = "watch"
    /\ StateFree("Person")
    /\ watchers' = Append(watchers, [cat |-> "Person", cur_watermark |-> Watermark("Person")])
    /\ pc' = [pc EXCEPT ![Owner] = "idle"]
    /\ UNCHANGED <<libVars, ret, cur, frames, handles, reads, prog,
                   undo_stack, redo_stack, eng, hist>>

\* let person = catalog.lock(id)
ScopeLock(id) ==
    /\ pc[Owner] = "idle"
    /\ handles[Owner] = {}
    /\ prog[Owner].n < ScopeMaxEdits
    /\ DoLock(Owner, "Person", id, "s_locked")
    /\ UNCHANGED <<prog, engVars, hist>>

\* write.name = v; catalog.commit(&person, write)
ScopeCommit(v) ==
    /\ pc[Owner] = "s_locked"
    /\ \E h \in handles[Owner] :
          DoCommit(Owner, h.cat, h.id, [wrappers[h.value].inner EXCEPT !["name"] = v],
                   "s_committed")
    /\ prog' = [prog EXCEPT ![Owner].n = @ + 1]
    /\ hist' = IF hist.phase = "in" THEN hist ELSE [hist EXCEPT !.phase = ""]
    /\ UNCHANGED engVars

\* the end of the block
ScopeUnlock ==
    /\ pc[Owner] = "s_committed"
    /\ \E h \in handles[Owner] : DoDrop(Owner, h, "idle")
    /\ UNCHANGED <<prog, engVars, hist>>

\* undo_redo.undo(), redo(), pause_scope() or combine_scope()
ScopeCall(op) ==
    /\ prog[Owner].val < ScopeMaxCalls
    /\ EngineCall(op)
    /\ prog' = [prog EXCEPT ![Owner].val = @ + 1]
    /\ hist' = [hist EXCEPT
           !.phase = IF op = "combine_scope" THEN "in"
                     ELSE IF op = "undo" /\ @ = "out" THEN "undone"
                     ELSE IF op = "redo" /\ @ = "undone" THEN "redone"
                     ELSE "",
           !.entry = IF op = "combine_scope" THEN Snapshot ELSE @,
           !.combined = IF op = "combine_scope" THEN {} ELSE @]

\* the PauseScope or CombineScope goes out of scope
ScopeLeave ==
    /\ ScopeDrop
    /\ hist' = IF eng.scope = "combine"
               THEN [hist EXCEPT !.exit = Snapshot,
                                 !.phase = IF hist.combined = {} THEN "" ELSE "out"]
               ELSE hist
    /\ UNCHANGED prog

\* The change record of a commit is pushed; hist notes its LSN if it is a
\* replay of the engine or pushed inside a scope.
ScopeLog ==
    /\ CommitInternalLog(Owner)
    /\ hist' = IF ret[Owner] = "e_drop"
               THEN [hist EXCEPT !.replayed = @ \cup {cur[Owner].lsn}]
               ELSE IF eng.scope = "pause"
               THEN [hist EXCEPT !.paused = @ \cup {cur[Owner].lsn}]
               ELSE IF eng.scope = "combine"
               THEN [hist EXCEPT !.combined = @ \cup {cur[Owner].lsn}]
               ELSE hist

NextScope ==
    \/ ScopeBuild
    \/ ScopeWatch
    \/ \E id \in ScopeIds : ScopeLock(id)
    \/ \E v \in Values : ScopeCommit(v)
    \/ ScopeUnlock
    \/ \E op \in {"undo", "redo", "pause_scope", "combine_scope"} : ScopeCall(op)
    \/ ScopeLeave
    \/ ScopeLog
    \/ ConsumeChangeLog /\ UNCHANGED <<prog, hist>>
    \/ Dispatch /\ UNCHANGED <<prog, hist>>
    \/ ReplayLock /\ UNCHANGED <<prog, hist>>
    \/ ReplayCommit /\ UNCHANGED <<prog, hist>>
    \/ ReplayDrop /\ UNCHANGED <<prog, hist>>
    \/ AdvanceWatermark /\ UNCHANGED <<prog, hist>>
    \/ CommitInternalEnter(Owner)
    \/ PropagateLock(Owner)
    \/ PropagateUnlock(Owner)
    \/ CreateLog(Owner)
    \/ CfpCreate(Owner)
    \/ CfpInsert(Owner)
    \/ CfpUnlock(Owner)

SpecScope == InitScope /\ [][NextScope]_vars

\* The LSNs of the UndoRecords of an undoable, and of a stack of undoables.
LsnsOf(u) ==
    IF u.kind = "UndoRecord" THEN {u.lsn}
    ELSE {u.undoables[k].lsn : k \in 1..Len(u.undoables)}

StackLsns(stack) == UNION {LsnsOf(stack[k]) : k \in 1..Len(stack)}

\* The LSNs of the change records the engine holds between the steps of a call.
HeldLsns == StackLsns(eng.acc) \cup StackLsns(eng.top)

PausedNotStacked ==
    hist.paused \cap (StackLsns(undo_stack) \cup StackLsns(redo_stack) \cup HeldLsns) = {}

\* A reconciliation that empties the redo stack found a change record that
\* was not pushed inside a pause scope.
PausedKeepsRedo ==
    (pc[Owner] = "e_consume" /\ redo_stack # <<>> /\ redo_stack' = <<>>)
        => \E k \in (Len(eng.acc) + 1)..Len(eng'.acc) : eng'.acc[k].lsn \notin hist.paused

\* C11: an edit committed between pause_scope() returning and the drop of the
\* PauseScope is never on the undo stack nor on the redo stack (nor among the
\* undoables a call is consuming), and no reconciliation empties a non-empty
\* redo stack because of it.
C11_PauseScopeHidesEdits == []PausedNotStacked /\ [][PausedKeepsRedo]_vars

\* An edit was undone, another was committed inside a pause scope, the scope
\* was dropped and a later call has reconciled: the redo stack is still there.
C11_Witness ==
    /\ hist.paused # {}
    /\ pc[Owner] = "idle"
    /\ eng.scope = ""
    /\ redo_stack # <<>>
    /\ prog[Owner].val = ScopeMaxCalls

\* The owner is between two statements of its program, outside any call.
ScopeIdle == pc[Owner] = "idle" /\ handles[Owner] = {}

\* The edits of the combine scope just dropped are one bundle on top of the
\* undo stack.
CombinedIsOneEntry ==
    (ScopeIdle /\ hist.phase = "out")
        => /\ undo_stack # <<>>
           /\ undo_stack[Len(undo_stack)].kind = "UndoableBundle"
           /\ LsnsOf(undo_stack[Len(undo_stack)]) = hist.combined
           /\ hist.combined \cap StackLsns(SubSeq(undo_stack, 1, Len(undo_stack) - 1)) = {}

CombinedUndoRestoresEntry == (ScopeIdle /\ hist.phase = "undone") => Snapshot = hist.entry

CombinedRedoRestoresExit == (ScopeIdle /\ hist.phase = "redone") => Snapshot = hist.exit

\* C12: the edits committed between combine_scope() returning and the drop of
\* the CombineScope are one entry of the undo stack; one undo() after the
\* scope leaves every record with its value at scope entry, and one redo()
\* after that with its value at scope exit.
C12_CombineScopeOneEntry ==
    CombinedIsOneEntry /\ CombinedUndoRestoresEntry /\ CombinedRedoRestoresExit

----------------------------------------------------------------------------
(* The editor program with two record types: undo.rs,                       *)
(* test_multiple_record_type_order.  Person 0 and Dog 0 are created, the    *)
(* owner watches Person and Dog in either order and calls undo and redo     *)
(* (OrderMaxCalls calls); the owner and a second thread edit the two        *)
(* records in lock, commit, drop blocks (OrderMaxEdits edits in all).       *)

OrderThreads == {Owner, Racer}

\* The field of the record type an edit writes.
OrderField(c) == IF c = "Person" THEN "name" ELSE "dog_years"

InitOrder ==
    /\ InitLibrary({"Person", "Dog"})
    /\ InitThreads(OrderThreads, "build")
    /\ InitNoEngine
    /\ hist = <<>>

\* person_catalog.create(..); dog_catalog.create(..)
OrderBuild ==
    /\ pc[Owner] = "build"
    /\ IF records["Person"] = <<>>
       THEN DoCreate(Owner, "Person", DefaultRecord("Person"), "build")
       ELSE DoCreate(Owner, "Dog", DefaultRecord("Dog"), "watch")
    /\ UNCHANGED <<prog, engVars, hist>>

\* undo_redo.watch::<R>() for a type not yet watched; after the second call
\* the other thread starts.
OrderWatch(c) ==
    /\ pc[Owner] = "watch"
    /\ \A k \in 1..Len(watchers) : watchers[k].cat # c
    /\ StateFree(c)
    /\ watchers' = Append(watchers, [cat |-> c, cur_watermark |-> Watermark(c)])
    /\ pc' = IF watchers = <<>> THEN pc ELSE [t \in OrderThreads |-> "idle"]
    /\ UNCHANGED <<libVars, ret, cur, frames, handles, reads, prog,
                   undo_stack, redo_stack, eng, hist>>

\* The edits begun by all threads.
OrderBegun == prog[Owner].n + prog[Racer].n

\* let r = catalog.lock(0)
OrderLock(t, c) ==
    /\ pc[t] = "idle"
    /\ handles[t] = {}
    /\ OrderBegun < OrderMaxEdits
    /\ DoLock(t, c, 0, "o_locked")
    /\ prog' = [prog EXCEPT ![t].n = @ + 1]
    /\ UNCHANGED <<engVars, hist>>

\* write.field = v, a new value; catalog.commit(&r, write)
OrderCommit(t, v) ==
    /\ pc[t] = "o_locked"
    /\ \E h \in handles[t] :
          /\ wrappers[h.value].inner[OrderField(h.cat)] # v
          /\ DoCommit(t, h.cat, h.id,
                      [wrappers[h.value].inner EXCEPT ![OrderField(h.cat)] = v],
                      "o_committed")
    /\ UNCHANGED <<prog, engVars, hist>>

\* the end of the block
OrderUnlock(t) ==
    /\ pc[t] = "o_committed"
    /\ \E h \in handles[t] : DoDrop(t, h, "idle")
    /\ UNCHANGED <<prog, engVars, hist>>

\* undo_redo.undo() or undo_redo.redo()
OrderCall(op) ==
    /\ prog[Owner].val < OrderMaxCalls
    /\ EngineCall(op)
    /\ prog' = [prog EXCEPT ![Owner].val = @ + 1]
    /\ UNCHANGED hist

NextOrder ==
    \/ OrderBuild
    \/ \E c \in Catalogs : OrderWatch(c)
    \/ \E op \in {"undo", "redo"} : OrderCall(op)
    \/ ConsumeChangeLog /\ UNCHANGED <<prog, hist>>
    \/ Dispatch /\ UNCHANGED <<prog, hist>>
    \/ ReplayLock /\ UNCHANGED <<prog, hist>>
    \/ ReplayCommit /\ UNCHANGED <<prog, hist>>
    \/ ReplayDrop /\ UNCHANGED <<prog, hist>>
    \/ AdvanceWatermark /\ UNCHANGED <<prog, hist>>
    \/ \E t \in OrderThreads :
          \/ \E c \in Catalogs : OrderLock(t, c)
          \/ \E v \in Values : OrderCommit(t, v)
          \/ OrderUnlock(t)
          \/ CommitInternalEnter(t)
          \/ CommitInternalLog(t) /\ UNCHANGED hist
          \/ CreateLog(t)

SpecOrder == InitOrder /\ [][NextOrder]_vars

\* The undoable an undo() that found one has popped.
Popped == IF eng'.top # <<>> THEN eng'.top[1] ELSE redo_stack'[Len(redo_stack')]

\* undo() reverts the pending edit with the greatest LSN.
UndoTakesLatest ==
    (/\ pc[Owner] = "e_dispatch"
     /\ pc'[Owner] # "e_dispatch"
     /\ eng.op = "undo"
     /\ undo_stack \o eng.acc # <<>>)
        => \A k \in 1..Len(undo_stack \o eng.acc) :
              Lsn((undo_stack \o eng.acc)[k]) <= Lsn(Popped)

\* C13: of the pending edits on the watched types, undo() reverts the one
\* with the greatest LSN, so successive undo() calls revert an edit on Y
\* before an edit on X with a smaller LSN, in whichever order the types were
\* watched.
C13_UndoFollowsLsnOrder == [][UndoTakesLatest]_vars

ReplayedNotStacked ==
    hist.replayed \cap (StackLsns(undo_stack) \cup StackLsns(redo_stack) \cup HeldLsns) = {}

\* A reconciliation that empties the redo stack found a change record that
\* no replay of undo() or redo() pushed.
ReplayedKeepsRedo ==
    (pc[Owner] = "e_consume" /\ redo_stack # <<>> /\ redo_stack' = <<>>)
        => \E k \in (Len(eng.acc) + 1)..Len(eng'.acc) : eng'.acc[k].lsn \notin hist.replayed

\* C14: the change records pushed by the commits of undo() and redo()
\* themselves, those of the prototype propagation of a replayed commit
\* included, are never returned by a reconciliation (so never on the undo
\* stack), and no reconciliation empties the redo stack because of them.
C14_ReplaysNotHarvested == []ReplayedNotStacked /\ [][ReplayedKeepsRedo]_vars

\* undo() has replayed a commit to the prototype that propagated to the
\* instance, and a later call has reconciled: the redo stack is still there.
C14_Witness ==
    /\ ScopeIdle
    /\ eng.scope = ""
    /\ redo_stack # <<>>
    /\ prog[Owner].val = ScopeMaxCalls
    /\ hist.paused = {}
    /\ \E k \in 2..Len(change_log["Person"]) :
          /\ change_log["Person"][k].lsn \in hist.replayed
          /\ change_log["Person"][k].record_id = 1
          /\ change_log["Person"][k - 1].lsn \in hist.replayed
          /\ change_log["Person"][k - 1].record_id = 0
          /\ k < Len(change_log["Person"])

----------------------------------------------------------------------------
(* The nested program: two threads on Person 0 and an instance 1 created    *)
(* from it.  A thread calls lock(id) and create_from_prototype(id) only for *)
(* an id above the ids of the handles it holds, and commit only through a   *)
(* handle on a record whose descendants are all above those ids, so every   *)
(* record lock it requests, in propagation too, is above the ones it holds. *)
(* A call is made in one step and returns in a later one: in between the    *)
(* thread waits.  The threads make AscMaxCalls calls in all and create      *)
(* records up to AscMaxRecords.                                             *)

AscThreads == {0, 1}

InitAsc ==
    /\ InitLibrary({"Person"})
    /\ InitThreads(AscThreads, "build")
    /\ InitNoEngine
    /\ hist = <<>>

\* catalog.create(..); catalog.create_from_prototype(0); thread::spawn
AscBuild ==
    /\ pc[0] = "build"
    /\ IF records["Person"] = <<>>
       THEN DoCreate(0, "Person", DefaultRecord("Person"), "build")
       ELSE DoCreateFromPrototype(0, "Person", 0, "spawn")
    /\ UNCHANGED <<prog, engVars, hist>>

AscSpawn ==
    /\ pc[0] = "spawn"
    /\ pc' = [t \in AscThreads |-> "idle"]
    /\ UNCHANGED <<libVars, ret, cur, frames, handles, reads, prog, engVars, hist>>

AscCalls == prog[0].n + prog[1].n

\* id is above the ids of all record locks thread t holds.
Above(t, id) == \A h \in handles[t] : h.id < id

\* The call catalog.lock(id) or catalog.create_from_prototype(id) begins.
AscCall(t, op, id) ==
    /\ pc[t] = "idle"
    /\ AscCalls < AscMaxCalls
    /\ Above(t, id)
    /\ op = "a_cfp" => Len(records["Person"]) < AscMaxRecords
    /\ pc' = [pc EXCEPT ![t] = op]
    /\ prog' = [prog EXCEPT ![t].n = @ + 1, ![t].val = id]
    /\ UNCHANGED <<libVars, ret, cur, frames, handles, reads, engVars, hist>>

\* get_internal(id, true) of catalog.lock(id) is through its wait.
AscLock(t) ==
    /\ pc[t] = "a_lock"
    /\ DoLock(t, "Person", prog[t].val, "idle")
    /\ UNCHANGED <<prog, engVars, hist>>

\* get_internal(id, true) of create_from_prototype(id) is through its wait.
AscCreate(t) ==
    /\ pc[t] = "a_cfp"
    /\ DoCreateFromPrototype(t, "Person", prog[t].val, "idle")
    /\ UNCHANGED <<prog, engVars, hist>>

\* catalog.commit(&h, write), write being h.value with the next name; the
\* descendants of the record are above every handle the thread holds.
AscCommit(t) ==
    /\ pc[t] = "idle"
    /\ AscCalls < AscMaxCalls
    /\ \E h \in handles[t] :
          /\ \A d \in 0..(Len(records[h.cat]) - 1) :
                IsAncestor(h.cat, h.id, d) => Above(t, d)
          /\ DoCommit(t, h.cat, h.id,
                      [wrappers[h.value].inner EXCEPT
                          !["name"] = (@ + 1) % (MaxValue + 1)],
                      "idle")
    /\ prog' = [prog EXCEPT ![t].n = @ + 1]
    /\ UNCHANGED <<engVars, hist>>

\* a Locked handle goes out of scope
AscDrop(t) ==
    /\ pc[t] = "idle"
    /\ \E h \in handles[t] : DoDrop(t, h, "idle")
    /\ UNCHANGED <<prog, engVars, hist>>

AscThread(t) ==
    \/ t = 0 /\ AscBuild
    \/ t = 0 /\ AscSpawn
    \/ \E op \in {"a_lock", "a_cfp"}, id \in 0..(Len(records["Person"]) - 1) :
          AscCall(t, op, id)
    \/ AscLock(t)
    \/ AscCreate(t)
    \/ AscCommit(t)
    \/ AscDrop(t)
    \/ CommitInternalEnter(t)
    \/ CommitInternalLog(t) /\ UNCHANGED hist
    \/ PropagateLock(t)
    \/ PropagateUnlock(t)
    \/ CfpCreate(t)
    \/ CreateLog(t)
    \/ CfpInsert(t)
    \/ CfpUnlock(t)

NextAsc == \E t \in AscThreads : AscThread(t)

\* Every thread that can take a step eventually takes one: a handle is
\* dropped in the end, and a thread whose wait is over goes on.
SpecAsc == InitAsc /\ [][NextAsc]_vars /\ \A t \in AscThreads : WF_vars(AscThread(t))

\* No thread is in a call and none holds a handle.
AscQuiet == \A t \in AscThreads : pc[t] = "idle" /\ handles[t] = {}

NoDeadlock == AscQuiet \/ ENABLED NextAsc

----------------------------------------------------------------------------
(* Linkage, ids, get and snapshots.                                         *)

\* The prototype_instances of the current wrapper of record id.
InstancesOf(c, id) == wrappers[records[c][id + 1]].prototype_instances

\* C16: in every reachable state, a record whose current wrapper has
\* prototype_id = p is in the prototype_instances of the current wrapper of
\* p, also between the publication of the child by create_from_prototype
\* and its insertion into the set, and after any commit to p.
C16_BidirectionalLinkage ==
    \A c \in Catalogs : \A id \in RecordIds(c) :
       PrototypeOf(c, id) # NoId => id \in InstancesOf(c, PrototypeOf(c, id))

\* The ids of the creations in the log of catalog c, in log order.
RECURSIVE CreatedIds(_)
CreatedIds(log) ==
    IF log = <<>> THEN <<>>
    ELSE IF Head(log).old_record = NoWrapper
         THEN <<Head(log).record_id>> \o CreatedIds(Tail(log))
         ELSE CreatedIds(Tail(log))

\* The threads inside create or create_from_prototype that have their id.
Creating == {t \in Threads : pc[t] \in {"create_log", "cfp_insert", "cfp_unlock"}}

IdsDense ==
    /\ \A c \in Catalogs :
          /\ Len(records[c]) = Len(locks[c])
          /\ LET ids == CreatedIds(change_log[c])
             IN /\ \A k \in 1..Len(ids) : ids[k] = k - 1
                /\ Len(ids) \in {Len(records[c]), Len(records[c]) - 1}
                /\ Len(ids) = Len(records[c]) - 1
                      <=> \E t \in Creating : pc[t] = "create_log" /\ cur[t].cat = c
    /\ \A t \in Creating :
          /\ cur[t].id < Len(records[cur[t].cat])
          /\ \A u \in Creating \ {t} : cur[u].cat = cur[t].cat => cur[u].id # cur[t].id

IdsKept ==
    \A c \in Catalogs :
       /\ Len(records'[c]) >= Len(records[c])
       /\ Len(locks'[c]) >= Len(locks[c])

\* C17: create and create_from_prototype give the ids 0, 1, 2, ... in the
\* order of their allocation, no two calls the same one, also when they run
\* at once; records and locks have the same length, which never decreases.
C17_IdsDensePermanent == []IdsDense /\ [][IdsKept]_vars

\* Both clients are inside create_from_prototype at once, each with its id.
C17_Witness ==
    /\ pc[1] = "cfp_insert"
    /\ pc[2] \in {"cfp_insert", "cfp_unlock"}
    /\ cur[1].id # cur[2].id

(* The reader program: on Person 0 and an instance 1 created from it, a     *)
(* writer locks a record, commits through the handle (ReaderMaxCommits      *)
(* commits in all) and drops it, while the reader calls get (ReaderMaxGets  *)
(* times).  A get is called in one step and returns in a later one.         *)

Reader == 0
Writer == 1

InitReader == InitAsc

\* let r = catalog.lock(id)
WriterLock(id) ==
    /\ pc[Writer] = "idle"
    /\ handles[Writer] = {}
    /\ prog[Writer].n < ReaderMaxCommits
    /\ DoLock(Writer, "Person", id, "idle")
    /\ UNCHANGED <<prog, engVars, hist>>

\* catalog.commit(&r, write), write being r.value with the name after the
\* one the record has.
WriterCommit ==
    /\ pc[Writer] = "idle"
    /\ prog[Writer].n < ReaderMaxCommits
    /\ \E h \in handles[Writer] :
          DoCommit(Writer, h.cat, h.id,
                   [wrappers[h.value].inner EXCEPT
                       !["name"] = (Inner(h.cat, h.id)["name"] + 1) % (MaxValue + 1)],
                   "idle")
    /\ prog' = [prog EXCEPT ![Writer].n = @ + 1]
    /\ UNCHANGED <<engVars, hist>>

\* r goes out of scope
WriterDrop ==
    /\ pc[Writer] = "idle"
    /\ \E h \in handles[Writer] : DoDrop(Writer, h, "idle")
    /\ UNCHANGED <<prog, engVars, hist>>

\* catalog.get(id) is called.
ReaderCall(id) ==
    /\ pc[Reader] = "idle"
    /\ prog[Reader].n < ReaderMaxGets
    /\ pc' = [pc EXCEPT ![Reader] = "g_get"]
    /\ prog' = [prog EXCEPT ![Reader].n = @ + 1, ![Reader].val = id]
    /\ UNCHANGED <<libVars, ret, cur, frames, handles, reads, engVars, hist>>

\* catalog.get(id) returns.
ReaderGet ==
    /\ pc[Reader] = "g_get"
    /\ DoGet(Reader, "Person", prog[Reader].val, "idle")
    /\ UNCHANGED <<prog, engVars, hist>>

NextReader ==
    \/ AscBuild
    \/ AscSpawn
    \/ \E id \in RecordIds("Person") : WriterLock(id)
    \/ WriterCommit
    \/ WriterDrop
    \/ \E id \in RecordIds("Person") : ReaderCall(id)
    \/ ReaderGet
    \/ \E t \in Threads :
          \/ CommitInternalEnter(t)
          \/ CommitInternalLog(t) /\ UNCHANGED hist
          \/ PropagateLock(t)
          \/ PropagateUnlock(t)
          \/ CfpCreate(t)
          \/ CreateLog(t)
          \/ CfpInsert(t)
          \/ CfpUnlock(t)

SpecReader == InitReader /\ [][NextReader]_vars

\* A called get can return as soon as the state lock is free.
GetNeverWaits == (pc[Reader] = "g_get" /\ StateFree("Person")) => ENABLED ReaderGet

\* The step in which get returns changes no lock flag, no record slot and
\* no change log.
GetFrame ==
    (pc[Reader] = "g_get" /\ pc'[Reader] # "g_get")
        => locks' = locks /\ records' = records /\ change_log' = change_log

\* C18: get(id) does not wait for the lock of the record and does not
\* change it: it returns while locks[id] is set, and leaves every lock flag,
\* every record slot and the change log as they were.
C18_GetIgnoresLock == []GetNeverWaits /\ [][GetFrame]_vars

\* get has returned the wrapper of a record that the writer holds locked.
C18_Witness ==
    /\ pc[Reader] = "idle"
    /\ prog[Reader].n >= 1
    /\ records["Person"][prog[Reader].val + 1] \in reads[Reader]
    /\ locks["Person"][prog[Reader].val + 1]
    /\ \E h \in handles[Writer] : h.id = prog[Reader].val

\* The wrappers a thread sees through its references: those returned by get
\* and the values of its Locked handles.
Seen(t) == reads[t] \cup {h.value : h \in handles[t]}

\* The wrappers published in catalog c: the new_record of its change records.
Published(c) == {change_log[c][k].new_record : k \in 1..Len(change_log[c])}

SnapshotPublished ==
    \A t \in Threads : Seen(t) \subseteq Published("Person")

\* No step changes the value of a wrapper or takes a reference away before
\* its handle is dropped; get returns the wrapper in the record's slot.
SnapshotStable ==
    /\ Len(wrappers') >= Len(wrappers)
    /\ \A w \in 1..Len(wrappers) : wrappers'[w].inner = wrappers[w].inner
    /\ \A t \in Threads : reads[t] \subseteq reads'[t]
    /\ (pc[Reader] = "g_get" /\ pc'[Reader] # "g_get")
          => reads'[Reader] = reads[Reader] \cup {records["Person"][prog[Reader].val + 1]}

\* C19: the value seen through a reference returned by get(id) or through
\* Locked.value is the whole value of one published wrapper, the one in the
\* slot when the call returned, and stays what it was for the lifetime of
\* the handle, whatever is committed to id afterwards.
C19_SnapshotStability == []SnapshotPublished /\ [][SnapshotStable]_vars

\* The reader has a reference to a wrapper that a commit has replaced since,
\* and the writer's handle has the value from before its own commit.
C19_Witness ==
    /\ \E w \in reads[Reader] : \E k \in 1..Len(change_log["Person"]) :
          change_log["Person"][k].old_record = w
    /\ \E h \in handles[Writer] : h.value # records[h.cat][h.id + 1]
    /\ pc[Writer] = "idle"

----------------------------------------------------------------------------
(* The change detection program: change_log.rs, test_change_detection.  The *)
(* writer creates a Person and edits it in lock, commit, drop blocks; the   *)
(* reader calls watermark(), keeping the watermarks it gets, and calls      *)
(* changes(start, end) with two of them (IterMaxCalls times), taking the    *)
(* items one next() at a time.  prog[Reader] holds the watermarks, the      *)
(* CatalogIterator and the items it has yielded; hist is the last finished  *)
(* iteration with the length of the log when it ended, and whether it       *)
(* repeated the arguments of the one before on a longer log (again) with    *)
(* the same items (same).                                                   *)

NoIter == [start |-> 0, cur_watermark |-> 0, end_watermark |-> 0, out |-> <<>>]

NoResult ==
    [start |-> 0, end |-> 0, out |-> <<>>, len |-> 0, again |-> FALSE, same |-> TRUE]

InitIter ==
    /\ InitLibrary({"Person"})
    /\ pc = [t \in {Reader, Writer} |-> "idle"]
    /\ ret = [t \in {Reader, Writer} |-> ""]
    /\ cur = [t \in {Reader, Writer} |-> NoCur]
    /\ frames = [t \in {Reader, Writer} |-> <<>>]
    /\ handles = [t \in {Reader, Writer} |-> {}]
    /\ reads = [t \in {Reader, Writer} |-> {}]
    /\ prog = [t \in {Reader, Writer} |->
                  IF t = Reader THEN [marks |-> {}, n |-> 0, it |-> NoIter] ELSE NoProg]
    /\ InitNoEngine
    /\ hist = NoResult

\* catalog.create(Person { .. })
IterCreate ==
    /\ pc[Writer] = "idle"
    /\ records["Person"] = <<>>
    /\ DoCreate(Writer, "Person", DefaultRecord("Person"), "idle")
    /\ UNCHANGED <<prog, engVars, hist>>

\* catalog.watermark()
IterWatermark ==
    /\ pc[Reader] = "idle"
    /\ StateFree("Person")
    /\ Watermark("Person") \notin prog[Reader].marks
    /\ prog' = [prog EXCEPT ![Reader].marks = @ \cup {Watermark("Person")}]
    /\ UNCHANGED <<libVars, pc, ret, cur, frames, handles, reads, engVars, hist>>

\* catalog.changes(start_point, end_point)
IterChanges(start_point, end_point) ==
    /\ pc[Reader] = "idle"
    /\ prog[Reader].n < IterMaxCalls
    /\ pc' = [pc EXCEPT ![Reader] = "it_next"]
    /\ prog' = [prog EXCEPT ![Reader].n = @ + 1,
                            ![Reader].it = [start |-> start_point,
                                            cur_watermark |-> start_point,
                                            end_watermark |-> end_point,
                                            out |-> <<>>]]
    /\ UNCHANGED <<libVars, ret, cur, frames, handles, reads, engVars, hist>>

\* An iterator that yields the newest change record.
IterItemLast(log, cur_watermark) == log[Len(log)]

\* CatalogIterator::next, line 57: state.change_log[self.cur_watermark.0]
IterItem(log, cur_watermark) == log[cur_watermark + 1]

\* CatalogIterator::next: None at the end watermark, which ends the
\* collection; otherwise the item under the state lock, and one step on.
IterNext ==
    /\ pc[Reader] = "it_next"
    /\ LET it == prog[Reader].it
       IN IF it.end_watermark <= it.cur_watermark
          THEN /\ hist' = [start |-> it.start, end |-> it.end_watermark,
                           out |-> it.out, len |-> Len(change_log["Person"]),
                           again |-> /\ prog[Reader].n > 1
                                     /\ hist.start = it.start
                                     /\ hist.end = it.end_watermark
                                     /\ hist.len < Len(change_log["Person"]),
                           same |-> it.out = hist.out]
               /\ pc' = [pc EXCEPT ![Reader] = "idle"]
               /\ prog' = [prog EXCEPT ![Reader].it = NoIter]
          ELSE /\ StateFree("Person")
               /\ prog' = [prog EXCEPT
                      ![Reader].it.out =
                          Append(@, IterItem(change_log["Person"], it.cur_watermark)),
                      ![Reader].it.cur_watermark = @ + 1]
               /\ UNCHANGED <<pc, hist>>
    /\ UNCHANGED <<libVars, ret, cur, frames, handles, reads, engVars>>

NextIter ==
    \/ IterCreate
    \/ \E id \in RecordIds("Person") : WriterLock(id)
    \/ WriterCommit
    \/ WriterDrop
    \/ IterWatermark
    \/ \E s, e \in prog[Reader].marks : IterChanges(s, e)
    \/ IterNext
    \/ CreateLog(Writer)
    \/ CommitInternalEnter(Writer)
    \/ CommitInternalLog(Writer) /\ UNCHANGED hist

SpecIter == InitIter /\ [][NextIter]_vars

\* The change records at the log positions from, from + 1, ..., to - 1.
LogSlice(from, to) == SubSeq(change_log["Person"], from + 1, to)

IterExact ==
    /\ hist.out = LogSlice(hist.start, hist.end)
    /\ pc[Reader] = "it_next" =>
          prog[Reader].it.out = LogSlice(prog[Reader].it.start, prog[Reader].it.cur_watermark)

IterRepeatable == hist.again => hist.same

\* C20: for watermarks start <= end <= watermark(), changes(start, end)
\* yields the change records at the log positions start, ..., end - 1 in
\* that order, none when end <= start, and yields the same sequence when it
\* is called again with the same arguments after records were appended.
C20_ChangesExact == IterExact /\ IterRepeatable

\* changes was called twice with the same watermarks, at least two records
\* apart, and the log grew between the two collections.
C20_Witness ==
    /\ hist.again
    /\ hist.end >= hist.start + 2
    /\ pc[Reader] = "idle"

----------------------------------------------------------------------------
(* The library program: library.rs, Library::register and checkout.  Two    *)
(* threads share one Library (thread 1 has a clone: the same catalogs map   *)
(* and Sequencer).  A catalog state (Arc<CatalogState<R>>) is named by a    *)
(* number, and records, locks, change_log and state_mutex have one entry    *)
(* per state.  prog[0].library is the Library: catalogs maps a type name to *)
(* its state, poisoned says that a thread panicked holding the map's Mutex. *)
(* prog[t].catalogs are the Catalog handles thread t has checked out.  A    *)
(* type is registered at most once; a thread registers, checks out, and     *)
(* creates, commits and reads through its handles.                          *)

LibThreads == {0, 1}
LibTypes == {"Person", "Dog"}

Library == prog[0].library

\* All Catalog handles checked out so far.
CatalogHandles == UNION {prog[t].catalogs : t \in LibThreads}

InitLib ==
    /\ InitLibrary({})
    /\ pc = [t \in LibThreads |-> "idle"]
    /\ ret = [t \in LibThreads |-> ""]
    /\ cur = [t \in LibThreads |-> NoCur]
    /\ frames = [t \in LibThreads |-> <<>>]
    /\ handles = [t \in LibThreads |-> {}]
    /\ reads = [t \in LibThreads |-> {}]
    /\ prog = [t \in LibThreads |->
                  IF t = 0
                  THEN [catalogs |-> {}, n |-> 0, bad |-> 0,
                        library |-> [catalogs |-> <<>>, poisoned |-> FALSE]]
                  ELSE [catalogs |-> {}, n |-> 0, bad |-> 0]]
    /\ InitNoEngine
    /\ hist = <<>>

LibCalls == prog[0].n + prog[1].n

\* A register that inserts whether or not the type is in the map.
LibRegisterAgain(t, R) ==
    /\ pc[t] = "idle"
    /\ ~Library.poisoned
    /\ LET state == Cardinality(DOMAIN records) + 1
       IN /\ records' = records @@ (state :> <<>>)
          /\ locks' = locks @@ (state :> <<>>)
          /\ change_log' = change_log @@ (state :> <<>>)
          /\ state_mutex' = state_mutex @@ (state :> NoThread)
          /\ prog' = [prog EXCEPT ![0].library.catalogs =
                         [n \in DOMAIN @ \cup {R} |-> IF n = R THEN state ELSE @[n]]]
    /\ UNCHANGED <<wrappers, inst_mutex, next_lsn, pc, ret, cur, frames, handles, reads>>

\* library.register::<R>(), called once for a type: insert a fresh
\* CatalogState under the type name.
LibRegister(t, R) ==
    /\ R \notin DOMAIN Library.catalogs
    /\ LibRegisterAgain(t, R)

\* A checkout that registers a type it does not find.
LibCheckoutOrInsert(t, R) ==
    /\ pc[t] = "idle"
    /\ LibCalls < LibMaxCalls
    /\ ~Library.poisoned
    /\ LET state == IF R \in DOMAIN Library.catalogs THEN Library.catalogs[R]
                    ELSE Cardinality(DOMAIN records) + 1
       IN /\ records' = records @@ (state :> <<>>)
          /\ locks' = locks @@ (state :> <<>>)
          /\ change_log' = change_log @@ (state :> <<>>)
          /\ state_mutex' = state_mutex @@ (state :> NoThread)
          /\ prog' = [prog EXCEPT
                 ![0].library.catalogs = @ @@ (R :> state),
                 ![t].n = @ + 1,
                 ![t].catalogs = @ \cup {[type |-> R, state |-> state]}]
    /\ UNCHANGED <<wrappers, inst_mutex, next_lsn, pc, ret, cur, frames, handles, reads>>

\* library.checkout::<R>(): lock().unwrap() fails on a poisoned Mutex and
\* get(type_name).unwrap() on a type that is not in the map; otherwise the
\* handle has a clone of the Arc in the map.
LibCheckout(t, R) ==
    /\ pc[t] = "idle"
    /\ LibCalls < LibMaxCalls
    /\ IF Library.poisoned \/ R \notin DOMAIN Library.catalogs
       THEN /\ pc' = [pc EXCEPT ![t] = "panicked"]
            /\ prog' = [prog EXCEPT ![0].library.poisoned = TRUE, ![t].n = @ + 1]
            /\ UNCHANGED <<libVars, ret, cur, frames, handles, reads>>
       ELSE /\ prog' = [prog EXCEPT
                   ![t].n = @ + 1,
                   ![t].catalogs = @ \cup {[type |-> R, state |-> Library.catalogs[R]]}]
            /\ UNCHANGED <<libVars, pc, ret, cur, frames, handles, reads>>

\* The edits begun: records created and handles locked for a commit.
LibEdits == Len(wrappers)

\* catalog.create(R::default()) through a handle
LibCreate(t) ==
    /\ pc[t] = "idle"
    /\ handles[t] = {}
    /\ LibEdits < LibMaxEdits
    /\ \E h \in prog[t].catalogs : DoCreate(t, h.state, DefaultRecord(h.type), "idle")
    /\ UNCHANGED prog

\* let r = catalog.lock(id) through a handle
LibLock(t) ==
    /\ pc[t] = "idle"
    /\ handles[t] = {}
    /\ LibEdits < LibMaxEdits
    /\ \E h \in prog[t].catalogs : \E id \in RecordIds(h.state) :
          DoLock(t, h.state, id, "l_locked")
    /\ UNCHANGED prog

\* write = r.value with 1 in every field; catalog.commit(&r, write)
LibCommit(t) ==
    /\ pc[t] = "l_locked"
    /\ \E h \in handles[t] :
          DoCommit(t, h.cat, h.id, [f \in DOMAIN wrappers[h.value].inner |-> 1],
                   "l_committed")
    /\ UNCHANGED prog

\* r goes out of scope
LibDrop(t) ==
    /\ pc[t] = "l_committed"
    /\ \E h \in handles[t] : DoDrop(t, h, "idle")
    /\ UNCHANGED prog

\* catalog.get(id) through a handle
LibGet(t) ==
    /\ pc[t] = "idle"
    /\ \E h \in prog[t].catalogs : \E id \in RecordIds(h.state) :
          /\ records[h.state][id + 1] \notin reads[t]
          /\ DoGet(t, h.state, id, "idle")
    /\ UNCHANGED prog

\* The thread panics; with a Locked alive in its frames the unwinding drops
\* it, unlock finds the state Mutex poisoned and panics a second time, which
\* aborts the process.
LibFatal(t, aborts) ==
    pc' = [u \in LibThreads |-> IF u = t \/ aborts THEN "panicked" ELSE pc[u]]

\* An index out of range that makes the Vec of flags longer.
IndexGrows(t, c, op) ==
    /\ StateFree(c)
    /\ locks' = [locks EXCEPT ![c] = Append(@, op \in {"lock", "create_from_prototype"})]
    /\ UNCHANGED <<records, change_log, state_mutex, wrappers, inst_mutex, next_lsn,
                   pc, ret, cur, frames, handles, reads>>

\* get_internal lines 105-115 and unlock lines 128-129 with id.0 >= len:
\* locks[id.0] (lock, create_from_prototype, unlock) or records[id.0] (get,
\* commit) panics under the guard of the state Mutex, which poisons it.
IndexPanic(t, c, op) ==
    /\ StateFree(c)
    /\ state_mutex' = [state_mutex EXCEPT ![c] = Poisoned]
    /\ LibFatal(t, op = "commit")
    /\ UNCHANGED <<records, locks, change_log, wrappers, inst_mutex, next_lsn,
                   ret, cur, frames, handles, reads>>

\* A call of op with the id Len(records) + over, which is not smaller than
\* the number of records; commit is called with a Locked whose public id was
\* overwritten.
LibCallOut(t, op, over) ==
    /\ LibCalls < LibMaxCalls
    /\ pc[t] = IF op = "commit" THEN "l_locked" ELSE "idle"
    /\ \E h \in prog[t].catalogs :
          LET id == Len(records[h.state]) + over
          IN /\ op = "commit" => \E l \in handles[t] : l.cat = h.state
             /\ id >= Len(records[h.state])
             /\ IndexPanic(t, h.state, op)
    /\ prog' = [prog EXCEPT ![t].bad = @ + 1, ![t].n = @ + 1]

\* The catalogs whose state Mutex the next step of thread t locks.
LibNeeds(t) ==
    CASE pc[t] = "idle" -> {h.state : h \in prog[t].catalogs}
      [] pc[t] \in {"l_locked", "l_committed"} -> {l.cat : l \in handles[t]}
      [] pc[t] = "ci_enter" -> {cur[t].cat}
      [] OTHER -> {}

\* state.inner.lock().unwrap() on a poisoned Mutex
LibPoisonedCall(t) ==
    /\ \E c \in LibNeeds(t) : state_mutex[c] = Poisoned
    /\ LibFatal(t, pc[t] \in {"l_locked", "ci_enter"})
    /\ UNCHANGED <<libVars, ret, cur, frames, handles, reads, prog>>

LibOps == {"get", "lock", "unlock", "commit", "create_from_prototype"}

NextLib ==
    \E t \in LibThreads :
       \/ \E R \in LibTypes : LibRegister(t, R) /\ UNCHANGED <<engVars, hist>>
       \/ \E R \in LibTypes : LibCheckout(t, R) /\ UNCHANGED <<engVars, hist>>
       \/ LibCreate(t) /\ UNCHANGED <<engVars, hist>>
       \/ LibLock(t) /\ UNCHANGED <<engVars, hist>>
       \/ LibCommit(t) /\ UNCHANGED <<engVars, hist>>
       \/ LibDrop(t) /\ UNCHANGED <<engVars, hist>>
       \/ LibGet(t) /\ UNCHANGED <<engVars, hist>>
       \/ \E op \in LibOps : \E over \in {0, 1} :
             LibCallOut(t, op, over) /\ UNCHANGED <<engVars, hist>>
       \/ LibPoisonedCall(t) /\ UNCHANGED <<engVars, hist>>
       \/ CreateLog(t) /\ UNCHANGED prog
       \/ CommitInternalEnter(t)
       \/ CommitInternalLog(t) /\ UNCHANGED hist

SpecLib == InitLib /\ [][NextLib]_vars

\* Two handles show the same records: the same ids with the same wrappers.
SameView(h, g) == records[h.state] = records[g.state]

CheckoutStep(t) == prog'[t].n = prog[t].n + 1 /\ prog'[t].bad = prog[t].bad

\* A checkout that ends in the fatal error changes neither the map of the
\* Library nor any catalog state, and the thread has no new handle.
FailedCheckoutKeeps ==
    \A t \in LibThreads :
       (CheckoutStep(t) /\ pc'[t] = "panicked") =>
           /\ prog'[0].library.catalogs = Library.catalogs
           /\ prog'[t].catalogs = prog[t].catalogs
           /\ UNCHANGED libVars

\* A checkout returns a handle only for a type registered before the call,
\* and a checkout for a type that is not registered is fatal.
CheckoutNeedsRegister ==
    \A t \in LibThreads :
       CheckoutStep(t) =>
           /\ \A h \in prog'[t].catalogs \ prog[t].catalogs :
                 h.type \in DOMAIN Library.catalogs
           /\ DOMAIN Library.catalogs = {} => pc'[t] = "panicked"

----------------------------------------------------------------------------
(* create_from_prototype as one call: catalog.rs lines 62-79.               *)

\* Thread t is inside create_from_prototype(cur[t].proto).
InCfp(t) ==
    \/ pc[t] \in {"cfp_create", "cfp_insert", "cfp_unlock"}
    \/ pc[t] = "create_log" /\ cur[t].proto # NoId

\* The call gets past get_internal(p, true) only when locks[p] is false, and
\* sets it.
CfpWaits ==
    \A t \in Threads :
       (~InCfp(t) /\ pc'[t] = "cfp_create") =>
           /\ ~locks[cur'[t].cat][cur'[t].proto + 1]
           /\ locks'[cur'[t].cat][cur'[t].proto + 1]

\* While the call runs, no step of any thread changes p's inner value.
CfpKeepsPrototype ==
    \A t \in Threads :
       InCfp(t) =>
           LET c == cur[t].cat
               p == cur[t].proto
           IN wrappers'[records'[c][p + 1]].inner = Inner(c, p)

\* The steps of the call append one change record, the creation of the
\* child, and nothing else.
CfpLogsOnce ==
    \A t \in Threads :
       (InCfp(t) /\ pc'[t] # pc[t]) =>
           LET c == cur[t].cat
               n == Len(change_log[c])
           IN IF pc[t] = "create_log"
              THEN /\ Len(change_log'[c]) = n + 1
                   /\ SubSeq(change_log'[c], 1, n) = change_log[c]
                   /\ change_log'[c][n + 1].record_id = cur[t].id
                   /\ change_log'[c][n + 1].old_record = NoWrapper
                   /\ \A d \in Catalogs \ {c} : change_log'[d] = change_log[d]
              ELSE change_log' = change_log

\* The creation change records of id in catalog c.
CreationsOf(c, id) ==
    {i \in 1..Len(change_log[c]) :
        change_log[c][i].record_id = id /\ change_log[c][i].old_record = NoWrapper}

\* On return the id is that of one created record, whose wrapper has
\* prototype_id = p and p's inner value, and locks[p] is false.
CfpReturns ==
    \A t \in Threads :
       (pc[t] = "cfp_unlock" /\ pc'[t] # "cfp_unlock") =>
           LET c == cur[t].cat
               p == cur[t].proto
           IN /\ ~locks'[c][p + 1]
              /\ Cardinality(CreationsOf(c, cur[t].id)) = 1
              /\ \A i \in CreationsOf(c, cur[t].id) :
                    LET child == wrappers[change_log[c][i].new_record]
                    IN /\ child.prototype_id = p
                       /\ child.inner = Inner(c, p)

\* C22: create_from_prototype(p) waits until p's lock is free, then returns
\* a new id whose record was created with prototype_id = p and the inner
\* value p had when the lock was obtained; the call appends exactly one
\* change record, the creation of the child, leaves p's inner value
\* unchanged and leaves locks[p] false on return.
C22_CreateFromPrototype ==
    [][CfpWaits /\ CfpKeepsPrototype /\ CfpLogsOnce /\ CfpReturns]_vars

\* Both clients are back from their calls; one record was made by a client
\* from a prototype that had been committed to a value other than the
\* default before, and the prototype is unlocked.
C22_Witness ==
    /\ pc[0] = "joining"
    /\ \A t \in Clients : pc[t] = "idle" /\ handles[t] = {}
    /\ \E id \in RecordIds("Person") :
          LET child == wrappers[records["Person"][id + 1]]
          IN /\ id >= Cardinality(ChainIds)
             /\ child.prototype_id # NoId
             /\ child.inner # DefaultRecord("Person")
             /\ child.inner = Inner("Person", child.prototype_id)
             /\ ~locks["Person"][child.prototype_id + 1]

----------------------------------------------------------------------------
(* undo() and redo() on an empty stack: undo.rs lines 171-187.              *)

\* A step that changes no record of a catalog, appends no change record and
\* takes no record lock.
NothingTouched ==
    /\ UNCHANGED <<records, wrappers, change_log, locks>>
    /\ handles' = handles

\* The call has consumed every watcher and finds its stack empty.
EmptyStackCall ==
    /\ pc[Owner] = "e_dispatch"
    /\ \/ eng.op = "undo" /\ undo_stack \o Sorted(eng.acc) = <<>>
       \/ eng.op = "redo" /\ redo_stack = <<>>

\* C23: undo() called when the undo stack is empty after reconciliation and
\* redo() called when the redo stack is empty after reconciliation change no
\* record of any catalog, append no change record and take no record lock:
\* neither the entry of the call, nor a step of the reconciliation, nor the
\* step that finds the stack empty, which returns.
C23_EmptyStackNoOp ==
    [][/\ (pc[Owner] = "idle" /\ pc'[Owner] \in {"e_consume", "e_dispatch"})
             => NothingTouched
       /\ pc[Owner] = "e_consume" => NothingTouched
       /\ EmptyStackCall => NothingTouched /\ pc'[Owner] = "idle"]_vars

\* An undo() and then a redo() have returned with a watcher and a record in
\* place and both stacks empty: each call found its stack empty, as an
\* undoable that is moved stays on one of the stacks.
C23_Witness ==
    /\ pc[Owner] = "idle"
    /\ watchers # <<>>
    /\ records["Person"] # <<>>
    /\ hist.ops = <<"undo", "redo">>
    /\ undo_stack = <<>>
    /\ redo_stack = <<>>

\* Thread t makes a call with an id out of range in this step.
CallOutStep(t) == prog'[t].bad = prog[t].bad + 1

\* C25: get, lock, unlock, commit and create_from_prototype called with a
\* record id that is not smaller than the number of records of the catalog
\* end in a fatal error, and the failed call changes no record slot, no lock
\* flag and no change-log entry.
C25_OutOfRangeFatal ==
    [][\A t \in LibThreads :
          CallOutStep(t) =>
              /\ pc'[t] = "panicked"
              /\ UNCHANGED <<records, wrappers, locks, change_log>>]_vars

\* A thread has panicked in a call with an id out of range on a catalog in
\* which the other thread holds a record locked: the flag is still set and
\* the record and the log are in place.
C25_Witness ==
    \E t \in LibThreads : \E u \in LibThreads \ {t} :
       /\ pc[t] = "panicked"
       /\ prog[t].bad = 1
       /\ \E l \in handles[u] :
             /\ locks[l.cat][l.id + 1]
             /\ state_mutex[l.cat] = Poisoned
             /\ change_log[l.cat] # <<>>

----------------------------------------------------------------------------
(* Replay order of a bundle: undo.rs lines 49-60, test_combine_scope.       *)

(* The program is that of test_combine_scope: one watched record, commits   *)
(* on it, combine scopes, undo() and redo().                                *)

InitBundle ==
    /\ InitLibrary({"Person"})
    /\ InitThreads({Owner}, "watch")
    /\ InitNoEngine
    /\ hist = HistScope0

\* let id = catalog.create(Person::new(..))
BundleCreate ==
    /\ pc[Owner] = "idle"
    /\ records["Person"] = <<>>
    /\ eng.scope = ""
    /\ DoCreate(Owner, "Person", DefaultRecord("Person"), "idle")
    /\ UNCHANGED <<prog, engVars, hist>>

\* let person = catalog.lock(id)
BundleLock ==
    /\ records["Person"] # <<>>
    /\ ScopeLock(0)

NextBundle ==
    \/ ScopeWatch
    \/ BundleCreate
    \/ BundleLock
    \/ \E v \in Values : ScopeCommit(v)
    \/ ScopeUnlock
    \/ \E op \in {"undo", "redo", "combine_scope"} : ScopeCall(op)
    \/ ScopeLeave
    \/ ScopeLog
    \/ ConsumeChangeLog /\ UNCHANGED <<prog, hist>>
    \/ Dispatch /\ UNCHANGED <<prog, hist>>
    \/ ReplayLock /\ UNCHANGED <<prog, hist>>
    \/ ReplayCommit /\ UNCHANGED <<prog, hist>>
    \/ ReplayDrop /\ UNCHANGED <<prog, hist>>
    \/ AdvanceWatermark /\ UNCHANGED <<prog, hist>>
    \/ CommitInternalEnter(Owner)
    \/ CreateLog(Owner)

SpecBundle == InitBundle /\ [][NextBundle]_vars

\* b is a bundle of several commits, all on record r.
BundleOn(b, r) ==
    /\ b.kind = "UndoableBundle"
    /\ Len(b.undoables) >= 2
    /\ \A k \in 1..Len(b.undoables) :
          /\ b.undoables[k].record_id = r
          /\ b.undoables[k].old_record # <<>>

\* The values committed by the last n change records of the log, in order.
LastCommitted(n) ==
    LET log == change_log["Person"]
    IN [k \in 1..n |-> wrappers[log[Len(log) - n + k].new_record].inner]

\* After the undo() that follows the scope: the replays committed the old
\* values of the members from last to first, and r has the old value of the
\* first member.
BundleUndoOrder ==
    (ScopeIdle /\ hist.phase = "undone" /\ redo_stack # <<>>) =>
        LET b == Top(redo_stack)
        IN \A r \in ScopeIds :
              BundleOn(b, r) =>
                  LET n == Len(b.undoables)
                  IN /\ LastCommitted(n) =
                           [k \in 1..n |-> b.undoables[n + 1 - k].old_record[1]]
                     /\ Inner("Person", r) = b.undoables[1].old_record[1]

\* After the redo() that follows: the replays committed the new values of
\* the members from first to last, and r has the new value of the last one.
BundleRedoOrder ==
    (ScopeIdle /\ hist.phase = "redone" /\ undo_stack # <<>>) =>
        LET b == Top(undo_stack)
        IN \A r \in ScopeIds :
              BundleOn(b, r) =>
                  LET n == Len(b.undoables)
                  IN /\ LastCommitted(n) = [k \in 1..n |-> b.undoables[k].new_record]
                     /\ Inner("Person", r) = b.undoables[n].new_record

\* C26: undo() of a Bundle replays the inverse of its members from last to
\* first and redo() of a Bundle replays its members from first to last, so
\* for several commits on the same record inside one combine scope the
\* record ends at the old value of the first member after undo and at the
\* new value of the last member after redo.
C26_BundleReplayOrder == BundleUndoOrder /\ BundleRedoOrder

\* A bundle of two commits on one record, the first of which changed the
\* value, has been undone and redone.
C26_Witness ==
    /\ ScopeIdle
    /\ hist.phase = "redone"
    /\ undo_stack # <<>>
    /\ \E r \in ScopeIds :
          /\ BundleOn(Top(undo_stack), r)
          /\ Top(undo_stack).undoables[1].new_record
                # Top(undo_stack).undoables[1].old_record[1]

----------------------------------------------------------------------------
(* Bundles are not empty: undo.rs lines 205-211 and 62-68.                  *)

Bundles(stack) ==
    {stack[k] : k \in {j \in 1..Len(stack) : stack[j].kind = "UndoableBundle"}}

NoEmptyBundle ==
    \A b \in Bundles(undo_stack) \cup Bundles(redo_stack) : b.undoables # <<>>

\* In a CombineScope, and in its drop, while the watched catalog has received
\* no change since the scope began, no step changes a stack.
EmptyScopeKeepsStacks ==
    ((eng.scope = "combine" \/ eng.op = "drop_combine") /\ hist.combined = {})
        => UNCHANGED <<undo_stack, redo_stack>>

\* C27: no Bundle on the undo stack or the redo stack is ever empty: the
\* drop of a CombineScope during which no watched catalog received a change
\* pushes nothing and leaves both stacks unchanged, so Bundle::lsn never
\* meets an empty bundle.
C27_NoEmptyBundle == []NoEmptyBundle /\ [][EmptyScopeKeepsStacks]_vars

\* A CombineScope without a change was dropped while both stacks held an
\* entry: the creation is on the undo stack and an undone commit on the redo
\* stack.
C27_Witness ==
    /\ ScopeIdle
    /\ eng.scope = ""
    /\ hist.phase = ""
    /\ hist.combined = {}
    /\ hist.exit # <<>>
    /\ undo_stack # <<>>
    /\ redo_stack # <<>>

----------------------------------------------------------------------------
(* Lifecycle of an undoable: undo.rs lines 171-187 and 218-230.  Between    *)
(* the pop and the push of undo() and redo() the undoable is the local top. *)

\* The entries of both stacks and the one in the hands of a running call.
AllEntries == undo_stack \o eng.top \o redo_stack

\* No undoable is there twice: not on both stacks, not twice on one.
AtMostOnce ==
    \A i \in 1..Len(AllEntries) : \A j \in 1..Len(AllEntries) :
       i # j => LsnsOf(AllEntries[i]) \cap LsnsOf(AllEntries[j]) = {}

\* The undo stack as undo() and redo() find it after the reconciliation.
Reconciled == undo_stack \o Sorted(eng.acc)

\* undo() pops the top of a non-empty undo stack and redo() the top of a
\* non-empty redo stack; nothing else leaves its stack.
PopsTop ==
    (pc[Owner] = "e_dispatch" /\ eng.op \in {"undo", "redo"}) =>
        IF eng.op = "undo" /\ Reconciled # <<>>
        THEN /\ undo_stack' = Pop(Reconciled)
             /\ redo_stack' \o eng'.top = Append(redo_stack, Top(Reconciled))
        ELSE IF eng.op = "redo" /\ redo_stack # <<>>
        THEN /\ redo_stack' = Pop(redo_stack)
             /\ undo_stack' \o eng'.top = Append(Reconciled, Top(redo_stack))
        ELSE undo_stack' = Reconciled /\ redo_stack' = redo_stack

\* The popped undoable is pushed onto the other stack when its replay is
\* done, and the stacks are left alone until then.
PushesTop ==
    eng.top # <<>> =>
        IF eng'.top = eng.top
        THEN UNCHANGED <<undo_stack, redo_stack>>
        ELSE /\ eng'.top = <<>>
             /\ undo_stack' = IF eng.op = "undo" THEN undo_stack
                              ELSE Append(undo_stack, eng.top[1])
             /\ redo_stack' = IF eng.op = "undo" THEN Append(redo_stack, eng.top[1])
                              ELSE redo_stack

\* An undoable leaves AllEntries only from the redo stack, and only in a step
\* of the reconciliation that found a new change record and cleared it.
LeavesOnlyByClear ==
    StackLsns(AllEntries) \ StackLsns(AllEntries') # {} =>
        /\ StackLsns(AllEntries) \ StackLsns(AllEntries') = StackLsns(redo_stack)
        /\ redo_stack' = <<>>
        /\ Len(eng'.acc) > Len(eng.acc)

\* C28: every undoable is on at most one of the two stacks at any time;
\* undo() with a non-empty undo stack moves exactly its top entry onto the
\* redo stack and redo() with a non-empty redo stack moves exactly its top
\* entry onto the undo stack; an entry leaves the stacks only when the redo
\* stack is cleared because a new edit was reconciled.
C28_UndoableLifecycle ==
    []AtMostOnce /\ [][PopsTop /\ PushesTop /\ LeavesOnlyByClear]_vars

\* The last of the undo() and redo() calls has returned: the undoable of a
\* commit, moved by a replay, is alone on the redo stack and the creation is
\* alone on the undo stack.
C28_Witness ==
    /\ ScopeIdle
    /\ eng.op = ""
    /\ prog[Owner].val = ScopeMaxCalls
    /\ Len(undo_stack) = 1
    /\ Len(redo_stack) = 1
    /\ redo_stack[1].kind = "UndoRecord"
    /\ redo_stack[1].old_record # <<>>
    /\ hist.replayed # {}

----------------------------------------------------------------------------
(* Undo of a commit that propagated: catalog.rs lines 138-163, undo.rs      *)
(* lines 101-117 and 171-178.  The program creates a prototype and instances *)
(* of it, watches the catalog, commits once to the prototype and calls      *)
(* undo() and redo().                                                       *)

HistProto0 == [phase |-> "", before |-> <<>>, after |-> <<>>]

InitProto ==
    /\ InitLibrary({"Person"})
    /\ InitThreads({Owner}, "build")
    /\ InitNoEngine
    /\ hist = HistProto0

\* catalog.create(..); catalog.create_from_prototype(0), once or more
ProtoBuild ==
    /\ pc[Owner] = "build"
    /\ Len(records["Person"]) <= ProtoMaxInstances
    /\ IF records["Person"] = <<>>
       THEN DoCreate(Owner, "Person", DefaultRecord("Person"), "build")
       ELSE DoCreateFromPrototype(Owner, "Person", 0, "build")
    /\ UNCHANGED <<prog, engVars, hist>>

\* undo_redo.watch::<Person>(), with at least one instance made
ProtoWatch ==
    /\ pc[Owner] = "build"
    /\ Len(records["Person"]) >= 2
    /\ StateFree("Person")
    /\ watchers' = Append(watchers, [cat |-> "Person", cur_watermark |-> Watermark("Person")])
    /\ pc' = [pc EXCEPT ![Owner] = "idle"]
    /\ UNCHANGED <<libVars, ret, cur, frames, handles, reads, prog,
                   undo_stack, redo_stack, eng, hist>>

\* let proto = catalog.lock(0): the one edit of the program
ProtoLock ==
    /\ pc[Owner] = "idle"
    /\ watchers # <<>>
    /\ prog[Owner].n = 0
    /\ DoLock(Owner, "Person", 0, "s_locked")
    /\ hist' = [hist EXCEPT !.before = Snapshot]
    /\ UNCHANGED <<prog, engVars>>

\* write.f = v; catalog.commit(&proto, write)
ProtoCommit(f, v) ==
    /\ pc[Owner] = "s_locked"
    /\ \E h \in handles[Owner] :
          /\ wrappers[h.value].inner[f] # v
          /\ DoCommit(Owner, h.cat, h.id, [wrappers[h.value].inner EXCEPT ![f] = v],
                      "s_committed")
    /\ prog' = [prog EXCEPT ![Owner].n = @ + 1]
    /\ UNCHANGED <<engVars, hist>>

\* the end of the block
ProtoDrop ==
    /\ pc[Owner] = "s_committed"
    /\ \E h \in handles[Owner] : DoDrop(Owner, h, "idle")
    /\ hist' = [hist EXCEPT !.after = Snapshot, !.phase = "committed"]
    /\ UNCHANGED <<prog, engVars>>

\* undo_redo.undo() or undo_redo.redo()
ProtoCall(op) ==
    /\ prog[Owner].n = 1
    /\ prog[Owner].val < ProtoMaxCalls
    /\ EngineCall(op)
    /\ prog' = [prog EXCEPT ![Owner].val = @ + 1]
    /\ hist' = [hist EXCEPT !.phase =
                   IF op = "undo" /\ @ = "committed" THEN "undone"
                   ELSE IF op = "redo" /\ @ = "undone" THEN "redone"
                   ELSE "other"]

NextProto ==
    \/ ProtoBuild
    \/ ProtoWatch
    \/ ProtoLock
    \/ \E f \in FieldsOf("Person"), v \in Values : ProtoCommit(f, v)
    \/ ProtoDrop
    \/ \E op \in {"undo", "redo"} : ProtoCall(op)
    \/ ConsumeChangeLog /\ UNCHANGED <<prog, hist>>
    \/ Dispatch /\ UNCHANGED <<prog, hist>>
    \/ ReplayLock /\ UNCHANGED <<prog, hist>>
    \/ ReplayCommit /\ UNCHANGED <<prog, hist>>
    \/ ReplayDrop /\ UNCHANGED <<prog, hist>>
    \/ AdvanceWatermark /\ UNCHANGED <<prog, hist>>
    \/ CommitInternalEnter(Owner)
    \/ CommitInternalLog(Owner) /\ UNCHANGED hist
    \/ PropagateLock(Owner)
    \/ PropagateUnlock(Owner)
    \/ CreateLog(Owner)
    \/ CfpCreate(Owner)
    \/ CfpInsert(Owner)
    \/ CfpUnlock(Owner)

SpecProto == InitProto /\ [][NextProto]_vars

\* The call of undo() or redo() has returned.
ProtoIdle == pc[Owner] = "idle" /\ eng.op = ""

\* C29: after one commit to a watched prototype that propagated to at least
\* one instance, and no other edit, a single undo() leaves the prototype
\* and every instance with their values before that commit, and a single
\* redo() after it leaves all of them with their values after the commit.
C29_UndoPropagatedCommit ==
    /\ (ProtoIdle /\ hist.phase = "undone") => Snapshot = hist.before
    /\ (ProtoIdle /\ hist.phase = "redone") => Snapshot = hist.after

----------------------------------------------------------------------------
(* Propagation through a prototype tree: catalog.rs lines 138-163.  One     *)
(* thread builds a tree of up to TreeMaxRecords records, creating each from *)
(* any record made before, and commits to any record of it.                 *)

HistTree0 == [start |-> 0, root |-> NoId]

InitTree ==
    /\ InitLibrary({"Person"})
    /\ InitThreads({0}, "build")
    /\ InitNoEngine
    /\ hist = HistTree0

\* catalog.create(..), then catalog.create_from_prototype(p)
TreeBuild ==
    /\ pc[0] = "build"
    /\ Len(records["Person"]) < TreeMaxRecords
    /\ IF records["Person"] = <<>>
       THEN DoCreate(0, "Person", DefaultRecord("Person"), "build")
       ELSE \E p \in RecordIds("Person") : DoCreateFromPrototype(0, "Person", p, "build")
    /\ UNCHANGED <<prog, engVars, hist>>

\* let locked = catalog.lock(r)
TreeLock(r) ==
    /\ pc[0] = "build"
    /\ prog[0].n < TreeMaxCommits
    /\ DoLock(0, "Person", r, "t_locked")
    /\ UNCHANGED <<prog, engVars, hist>>

\* write.name = v; catalog.commit(&locked, write); hist notes the length of
\* the change log at the call.
TreeCommit(v) ==
    /\ pc[0] = "t_locked"
    /\ \E h \in handles[0] :
          /\ DoCommit(0, h.cat, h.id, [wrappers[h.value].inner EXCEPT !["name"] = v],
                      "t_committed")
          /\ hist' = [start |-> Len(change_log[h.cat]), root |-> h.id]
    /\ prog' = [prog EXCEPT ![0].n = @ + 1]
    /\ UNCHANGED engVars

\* locked goes out of scope
TreeDrop ==
    /\ pc[0] = "t_committed"
    /\ \E h \in handles[0] : DoDrop(0, h, "build")
    /\ UNCHANGED <<prog, engVars, hist>>

NextTree ==
    \/ TreeBuild
    \/ \E r \in RecordIds("Person") : TreeLock(r)
    \/ \E v \in Values : TreeCommit(v)
    \/ TreeDrop
    \/ CommitInternalEnter(0)
    \/ CommitInternalLog(0) /\ UNCHANGED hist
    \/ PropagateLock(0)
    \/ PropagateUnlock(0)
    \/ CreateLog(0)
    \/ CfpCreate(0)
    \/ CfpInsert(0)
    \/ CfpUnlock(0)

SpecTree == InitTree /\ [][NextTree]_vars

\* The records of the prototype tree below r.
Descendants(r) == {d \in RecordIds("Person") : IsAncestor("Person", r, d)}

\* The change records appended since the call of commit.
Appended == SubSeq(change_log["Person"], hist.start + 1, Len(change_log["Person"]))

\* The positions in Appended of the change records of record x.
PosOf(x) == {k \in 1..Len(Appended) : Appended[k].record_id = x}

\* commit has returned: 1 + d change records were appended, the first for
\* r, one for each descendant, the records of every subtree in one block
\* that starts with the record of its root; r is locked and nothing else.
TreeReturned ==
    pc[0] = "t_committed" =>
        LET r == hist.root
        IN /\ Len(Appended) = 1 + Cardinality(Descendants(r))
           /\ Appended[1].record_id = r
           /\ \A x \in Descendants(r) \cup {r} :
                 /\ Cardinality(PosOf(x)) = 1
                 /\ \A k \in PosOf(x) :
                       UNION {PosOf(y) : y \in Descendants(x)}
                          = (k + 1)..(k + Cardinality(Descendants(x)))
           /\ \A y \in RecordIds("Person") : locks["Person"][y + 1] <=> y = r

\* A record is locked when its wrapper is replaced.
LockedWhenReplaced ==
    \A x \in RecordIds("Person") :
       records'["Person"][x + 1] # records["Person"][x + 1] => locks["Person"][x + 1]

\* Propagation unlocks an instance when the instance and all records below
\* it have their change record and the records below it are unlocked.
UnlockedAfterSubtree ==
    \A x \in RecordIds("Person") :
       (locks["Person"][x + 1] /\ ~locks'["Person"][x + 1] /\ pc[0] = "ci_unlock") =>
           /\ PosOf(x) # {}
           /\ \A y \in Descendants(x) : PosOf(y) # {} /\ ~locks["Person"][y + 1]

\* C30: a commit on record r whose prototype tree below r has d descendants
\* appends exactly 1 + d change records: first the one of r, then one per
\* descendant in depth-first order with every parent before its children;
\* each descendant is locked before it is replaced and unlocked after its
\* own subtree is done, and when commit returns every lock taken by
\* propagation is released while locks[r] is still true.
C30_PropagationOrder ==
    []TreeReturned /\ [][LockedWhenReplaced /\ UnlockedAfterSubtree]_vars

\* A commit on the root of a tree with two branches, one of them two deep,
\* has returned.
C30_Witness ==
    /\ pc[0] = "t_committed"
    /\ hist.root = 0
    /\ Cardinality(Descendants(0)) = 3
    /\ \E d \in Descendants(0) : PrototypeOf("Person", d) # 0
    /\ Cardinality({d \in Descendants(0) : PrototypeOf("Person", d) = 0}) = 2

----------------------------------------------------------------------------
(* The prototype relation is a forest: catalog.rs lines 62-90.              *)

\* The id of an instance is greater than the id of its prototype.
PrototypeBelow ==
    \A id \in RecordIds("Person") :
       PrototypeOf("Person", id) # NoId => PrototypeOf("Person", id) < id

\* No record is its own ancestor.
Forest == \A id \in RecordIds("Person") : ~IsAncestor("Person", id, id)

\* Thread 0 is inside commit.
TreeCommitting == pc[0] \in {"ci_enter", "ci_log", "ci_lock", "ci_unlock"}

\* While a commit runs it has replaced no record twice, its nesting is not
\* deeper than the tree, and it has a step to take.
VisitsOnce ==
    TreeCommitting =>
        /\ \A x \in RecordIds("Person") : Cardinality(PosOf(x)) <= 1
        /\ Len(frames[0]) <= Len(records["Person"])
        /\ ENABLED NextTree

\* When commit has returned, every descendant was replaced exactly once.
VisitedAll ==
    pc[0] = "t_committed" =>
        \A x \in Descendants(hist.root) : Cardinality(PosOf(x)) = 1

\* C31: every record created by create_from_prototype has an id strictly
\* greater than the id of its prototype, so the prototype relation of a
\* catalog is always a forest (no record is its own ancestor), and
\* propagation visits every descendant exactly once and terminates: a
\* running commit replaces no record twice and is never stuck.
C31_PrototypeForest == PrototypeBelow /\ Forest /\ VisitsOnce /\ VisitedAll

\* A commit on record 1 of the chain 0 -> 1 -> 2 -> 3 has returned.
C31_Witness ==
    /\ pc[0] = "t_committed"
    /\ hist.root = 1
    /\ Descendants(1) = {2, 3}
    /\ PrototypeOf("Person", 3) = 2

----------------------------------------------------------------------------
(* The change log is append-only: change_log.rs lines 78-80, catalog.rs     *)
(* lines 165-179, undo.rs lines 101-123.                                    *)

\* No step shortens a change log or changes an entry it has.
LogAppendOnly ==
    \A c \in Catalogs :
       /\ Len(change_log'[c]) >= Len(change_log[c])
       /\ SubSeq(change_log'[c], 1, Len(change_log[c])) = change_log[c]

\* The watermark a watcher has stored is not beyond the log of its catalog.
WatcherWithinLog ==
    \A i \in 1..Len(watchers) :
       watchers[i].cur_watermark <= Len(change_log[watchers[i].cat])

\* No step moves a stored watermark back.
WatcherForward ==
    \A i \in 1..Len(watchers) :
       /\ i <= Len(watchers')
       /\ watchers'[i].cat = watchers[i].cat
       /\ watchers'[i].cur_watermark >= watchers[i].cur_watermark

\* C32: the change log is append-only: watermark() never decreases, every
\* operation leaves the entries below the previous watermark unchanged, and
\* a watcher's stored watermark never exceeds the watermark of its catalog
\* and never decreases.
C32_LogAppendOnly == []WatcherWithinLog /\ [][LogAppendOnly /\ WatcherForward]_vars

\* A watcher has read a part of its log and lags behind it, after an undo()
\* advanced the watermarks and with an entry on each stack.
C32_Witness ==
    /\ undo_stack # <<>>
    /\ redo_stack # <<>>
    /\ \E i \in 1..Len(watchers) :
          /\ watchers[i].cur_watermark > 0
          /\ watchers[i].cur_watermark < Len(change_log[watchers[i].cat])

\* ---------------------------------------------------------------------------
\* Creation entries of the change log (create_internal, commit_internal).

\* An entry has no old_record exactly when it is the first entry of its id.
CreationIsFirst ==
    \A c \in Catalogs : \A i \in 1..Len(change_log[c]) :
       (change_log[c][i].old_record = NoWrapper) <=>
          (\A j \in 1..(i - 1) : change_log[c][j].record_id # change_log[c][i].record_id)

\* Every record has one creation entry, but for the one a create_internal has
\* pushed and not yet logged (it holds the state lock in between).
OneCreation ==
    \A c \in Catalogs : \A id \in RecordIds(c) :
       IF \E t \in Threads : pc[t] = "create_log" /\ cur[t].cat = c /\ cur[t].id = id
       THEN CreationsOf(c, id) = {}
       ELSE Cardinality(CreationsOf(c, id)) = 1

\* The entries without old_record are the ones create_internal appends: the
\* step out of create_log appends one, the step out of ci_log appends an entry
\* with an old_record, no other step appends.
AppendedBy ==
    \A c \in Catalogs :
       Len(change_log'[c]) > Len(change_log[c]) =>
          LET e == change_log'[c][Len(change_log'[c])]
          IN /\ Len(change_log'[c]) = Len(change_log[c]) + 1
             /\ \E t \in Threads :
                   /\ cur[t].cat = c
                   /\ cur[t].id = e.record_id
                   /\ pc[t] \in {"create_log", "ci_log"}
                   /\ pc'[t] # pc[t] \/ frames'[t] # frames[t]
                   /\ (e.old_record = NoWrapper) <=> (pc[t] = "create_log")

\* C33: a change record has no old_record if and only if create or
\* create_from_prototype appended it; each record id has exactly one such
\* entry and it precedes every other entry of that id.
C33_CreationEntries ==
    [](CreationIsFirst /\ OneCreation) /\ [][AppendedBy]_vars

\* A record made by create_from_prototype has its creation entry followed by
\* the entry of a commit on it.
C33_Witness ==
    \E id \in RecordIds("Person") :
       /\ wrappers[records["Person"][id + 1]].prototype_id # NoId
       /\ \E i, j \in 1..Len(change_log["Person"]) :
             /\ i < j
             /\ change_log["Person"][i].record_id = id
             /\ change_log["Person"][i].old_record = NoWrapper
             /\ change_log["Person"][j].record_id = id
             /\ change_log["Person"][j].old_record # NoWrapper

----------------------------------------------------------------------------
(* Edits pending at scope entry: undo.rs lines 189-197, test_pause_scope,   *)
(* test_combine_scope.                                                      *)

(* The program is that of the two tests: a watched catalog, a record        *)
(* created and committed, then a scope with commits inside, then undo() or  *)
(* redo().  hist notes, for the latest scope, the LSNs of the change        *)
(* records pending at the call (pending), the length of the undo stack at   *)
(* the call (base), the LSNs committed inside (inside) and whether the      *)
(* scope is entered ("in") or dropped ("out").                              *)

EntryMaxCalls == 3

HistEntry0 == [phase |-> "", kind |-> "", pending |-> {}, base |-> 0, inside |-> {}]

InitEntry ==
    /\ InitLibrary({"Person"})
    /\ InitThreads({Owner}, "watch")
    /\ InitNoEngine
    /\ hist = HistEntry0

\* The LSNs of the change records the watchers have not consumed.
PendingLsns ==
    UNION {{change_log[watchers[i].cat][k].lsn :
               k \in (watchers[i].cur_watermark + 1)..Len(change_log[watchers[i].cat])} :
           i \in 1..Len(watchers)}

\* write.name = v; catalog.commit(&person, write)
EntryCommit(v) ==
    /\ pc[Owner] = "s_locked"
    /\ \E h \in handles[Owner] :
          DoCommit(Owner, h.cat, h.id, [wrappers[h.value].inner EXCEPT !["name"] = v],
                   "s_committed")
    /\ prog' = [prog EXCEPT ![Owner].n = @ + 1]
    /\ UNCHANGED <<engVars, hist>>

\* undo_redo.undo(), redo(), pause_scope() or combine_scope()
EntryCall(op) ==
    /\ prog[Owner].val < EntryMaxCalls
    /\ EngineCall(op)
    /\ prog' = [prog EXCEPT ![Owner].val = @ + 1]
    /\ hist' = IF op \in {"pause_scope", "combine_scope"}
               THEN [phase |-> "in", kind |-> op, pending |-> PendingLsns,
                     base |-> Len(undo_stack), inside |-> {}]
               ELSE HistEntry0

\* the PauseScope or CombineScope goes out of scope
EntryLeave ==
    /\ ScopeDrop
    /\ hist' = [hist EXCEPT !.phase = "out"]
    /\ UNCHANGED prog

\* The change record of a commit is pushed; hist notes its LSN if the commit
\* is made inside a scope.
EntryLog ==
    /\ CommitInternalLog(Owner)
    /\ hist' = IF eng.scope # "" THEN [hist EXCEPT !.inside = @ \cup {cur[Owner].lsn}]
               ELSE hist

NextEntry ==
    \/ ScopeWatch
    \/ BundleCreate
    \/ BundleLock
    \/ \E v \in Values : EntryCommit(v)
    \/ ScopeUnlock
    \/ \E op \in {"undo", "redo", "pause_scope", "combine_scope"} : EntryCall(op)
    \/ EntryLeave
    \/ EntryLog
    \/ ConsumeChangeLog /\ UNCHANGED <<prog, hist>>
    \/ Dispatch /\ UNCHANGED <<prog, hist>>
    \/ ReplayLock /\ UNCHANGED <<prog, hist>>
    \/ ReplayCommit /\ UNCHANGED <<prog, hist>>
    \/ ReplayDrop /\ UNCHANGED <<prog, hist>>
    \/ AdvanceWatermark /\ UNCHANGED <<prog, hist>>
    \/ CommitInternalEnter(Owner)
    \/ CreateLog(Owner)

SpecEntry == InitEntry /\ [][NextEntry]_vars

\* The scope of hist is entered, or dropped with nothing called since.
EntryEntered == hist.phase = "in" /\ eng.scope # ""
EntryLeft == hist.phase = "out" /\ eng.scope = "" /\ pc[Owner] = "idle"

\* The entries pushed at the call are the pending change records, one
\* UndoRecord each.
PendingPushed ==
    LET n == Cardinality(hist.pending)
    IN /\ Len(undo_stack) >= hist.base + n
       /\ \A k \in 1..n : undo_stack[hist.base + k].kind = "UndoRecord"
       /\ {undo_stack[hist.base + k].lsn : k \in 1..n} = hist.pending

\* What the scope itself has put on the undo stack once dropped: nothing for
\* a pause, nothing or one bundle of the commits made inside for a combine.
ScopeOwnEntries ==
    LET rest == SubSeq(undo_stack, hist.base + Cardinality(hist.pending) + 1, Len(undo_stack))
    IN IF hist.kind = "pause_scope" \/ hist.inside = {}
       THEN rest = <<>>
       ELSE /\ Len(rest) = 1
            /\ rest[1].kind = "UndoableBundle"
            /\ LsnsOf(rest[1]) = hist.inside
            /\ LsnsOf(rest[1]) \cap hist.pending = {}

\* C34: the changes pending when pause_scope() or combine_scope() is called
\* are on the undo stack as individual undoables from scope entry on; the
\* pause does not discard them and the combine Bundle does not include them.
C34_PendingBeforeScope ==
    /\ EntryEntered => PendingPushed
    /\ EntryLeft => (PendingPushed /\ ScopeOwnEntries)

\* A combine scope entered with a commit pending and dropped after a commit
\* inside.
C34_Witness ==
    /\ EntryLeft
    /\ hist.kind = "combine_scope"
    /\ hist.inside # {}
    /\ \E k \in 1..Len(undo_stack) :
          /\ undo_stack[k].kind = "UndoRecord"
          /\ undo_stack[k].lsn \in hist.pending
          /\ undo_stack[k].old_record # <<>>

----------------------------------------------------------------------------
(* The wait of lock(id): catalog.rs lines 104-131.                          *)

(* The condition variable locks_cv is explicit here.  A thread in lock(id)  *)
(* that finds locks[id] set is parked on it (pc "cv_wait", the id in        *)
(* prog.val); notify_all makes every parked thread ready (pc "cv_ready");   *)
(* a ready thread takes the state lock again and wait_while evaluates its   *)
(* condition again.  wait_while gives up the state lock and parks           *)
(* atomically.  The threads lock and drop without end, each holding one     *)
(* record at a time, on a catalog of two records.                           *)

WaitThreads == {0, 1, 2}

InitWait ==
    /\ InitLibrary({"Person"})
    /\ InitThreads(WaitThreads, "build")
    /\ InitNoEngine
    /\ hist = <<>>

\* catalog.create(..); catalog.create(..)
WaitBuild ==
    /\ pc[0] = "build"
    /\ DoCreate(0, "Person", DefaultRecord("Person"),
                IF records["Person"] = <<>> THEN "build" ELSE "spawn")
    /\ UNCHANGED <<prog, engVars, hist>>

WaitSpawn ==
    /\ pc[0] = "spawn"
    /\ pc' = [t \in WaitThreads |-> "idle"]
    /\ UNCHANGED <<libVars, ret, cur, frames, handles, reads, prog, engVars, hist>>

\* get_internal(id, true) up to the first evaluation of the condition of
\* wait_while: the flag is taken, or the thread is parked.
WaitLock(t, id) ==
    /\ pc[t] = "idle"
    /\ handles[t] = {}
    /\ id < Len(records["Person"])
    /\ StateFree("Person")
    /\ prog' = [prog EXCEPT ![t].val = id]
    /\ IF LockFree("Person", id)
       THEN DoLock(t, "Person", id, "idle")
       ELSE /\ pc' = [pc EXCEPT ![t] = "cv_wait"]
            /\ UNCHANGED <<libVars, ret, cur, frames, handles, reads>>
    /\ UNCHANGED <<engVars, hist>>

\* A Locked drop whose unlock clears the flag and notifies nobody.
WaitDropSilent(t) ==
    /\ pc[t] = "idle"
    /\ \E h \in handles[t] :
          /\ Unlock(h.cat, h.id)
          /\ handles' = [handles EXCEPT ![t] = @ \ {h}]
    /\ UNCHANGED pc
    /\ UNCHANGED <<records, change_log, state_mutex, wrappers, inst_mutex, next_lsn,
                   ret, cur, frames, reads, prog, engVars, hist>>

\* Drop for Locked, unlock(id): clear the flag; notify_all makes every thread
\* parked on the catalog's condition variable ready.
WaitDrop(t) ==
    /\ pc[t] = "idle"
    /\ \E h \in handles[t] :
          /\ Unlock(h.cat, h.id)
          /\ handles' = [handles EXCEPT ![t] = @ \ {h}]
    /\ pc' = [u \in WaitThreads |-> IF pc[u] = "cv_wait" THEN "cv_ready" ELSE pc[u]]
    /\ UNCHANGED <<records, change_log, state_mutex, wrappers, inst_mutex, next_lsn,
                   ret, cur, frames, reads, prog, engVars, hist>>

\* wait_while after a wake-up: the condition is false, locks[id] = true and
\* get_internal returns.
WaitAcquire(t) ==
    /\ pc[t] = "cv_ready"
    /\ DoLock(t, "Person", prog[t].val, "idle")
    /\ UNCHANGED <<prog, engVars, hist>>

\* wait_while after a wake-up: the condition is true, the thread is parked
\* again.
WaitAgain(t) ==
    /\ pc[t] = "cv_ready"
    /\ StateFree("Person")
    /\ ~LockFree("Person", prog[t].val)
    /\ pc' = [pc EXCEPT ![t] = "cv_wait"]
    /\ UNCHANGED <<libVars, ret, cur, frames, handles, reads, prog, engVars, hist>>

\* Condvar::wait may return without a notification.
WaitSpurious(t) ==
    /\ pc[t] = "cv_wait"
    /\ pc' = [pc EXCEPT ![t] = "cv_ready"]
    /\ UNCHANGED <<libVars, ret, cur, frames, handles, reads, prog, engVars, hist>>

NextWait ==
    \/ WaitBuild
    \/ WaitSpawn
    \/ CreateLog(0)
    \/ \E t \in WaitThreads, id \in RecordIds("Person") : WaitLock(t, id)
    \/ \E t \in WaitThreads : WaitDrop(t)
    \/ \E t \in WaitThreads : WaitAcquire(t)
    \/ \E t \in WaitThreads : WaitAgain(t)
    \/ \E t \in WaitThreads : WaitSpurious(t)

\* Every holder drops its handle in the end, a ready thread evaluates the
\* condition in the end, and a thread that finds itself ready with the flag
\* clear again and again takes the flag in the end.  Nothing is assumed about
\* new calls of lock and about wake-ups without a notification.
SpecWait ==
    /\ InitWait
    /\ [][NextWait]_vars
    /\ \A t \in WaitThreads :
          /\ WF_vars(WaitDrop(t))
          /\ WF_vars(WaitAgain(t))
          /\ SF_vars(WaitAcquire(t))

\* Thread t is in the wait of lock(prog[t].val).
Waiting(t) == pc[t] \in {"cv_wait", "cv_ready"}

\* Thread t holds a Locked handle on the record it asked for.
Acquired(t) == pc[t] = "idle" /\ \E h \in handles[t] : h.id = prog[t].val

\* A thread is parked only while the flag it waits for is set.
NoLostWakeup ==
    \A t \in WaitThreads : pc[t] = "cv_wait" => locks["Person"][prog[t].val + 1]

\* An unlock makes every parked thread ready.
Broadcast ==
    (\E id \in RecordIds("Person") : locks["Person"][id + 1] /\ ~locks'["Person"][id + 1])
        => \A t \in WaitThreads : pc[t] = "cv_wait" => pc'[t] = "cv_ready"

----------------------------------------------------------------------------
(* Order of the undo stack: undo.rs lines 213-230.                          *)

\* C36: in every reachable state the undo stack is in ascending LSN order
\* from bottom to top, a Bundle counted by the LSN of its last member, also
\* when another thread commits on the watched catalogs while a
\* reconciliation reads the watchers one after another.
C36_UndoStackAscending ==
    \A k \in 1..(Len(undo_stack) - 1) : Lsn(undo_stack[k]) < Lsn(undo_stack[k + 1])

----------------------------------------------------------------------------
(* Edits of another thread during undo() and redo(): undo.rs lines 171-203. *)

(* The owner watches Person, creates a record, edits it, calls undo(),      *)
(* redo() and pause_scope(); thread 1 edits the record in lock, commit,     *)
(* drop blocks of its own.  hist keeps the LSNs of the change records       *)
(* pushed by the engine's replays and of those pushed inside a pause scope. *)

InitLost ==
    /\ InitLibrary({"Person"})
    /\ pc = [t \in {Owner, Racer} |-> IF t = Owner THEN "watch" ELSE "idle"]
    /\ ret = [t \in {Owner, Racer} |-> ""]
    /\ cur = [t \in {Owner, Racer} |-> NoCur]
    /\ frames = [t \in {Owner, Racer} |-> <<>>]
    /\ handles = [t \in {Owner, Racer} |-> {}]
    /\ reads = [t \in {Owner, Racer} |-> {}]
    /\ prog = [t \in {Owner, Racer} |-> NoProg]
    /\ InitNoEngine
    /\ hist = HistScope0

\* The change record of thread t's commit is pushed; hist notes its LSN if
\* it is a replay of the engine, or pushed while a pause scope is entered or
\* open.
LostLog(t) ==
    /\ CommitInternalLog(t)
    /\ hist' = IF t = Owner /\ ret[Owner] = "e_drop"
               THEN [hist EXCEPT !.replayed = @ \cup {cur[t].lsn}]
               ELSE IF eng.scope = "pause" \/ eng.op = "pause_scope"
               THEN [hist EXCEPT !.paused = @ \cup {cur[t].lsn}]
               ELSE hist

\* thread 1: let person = catalog.lock(0), once the record exists
LostRaceLock ==
    /\ records["Person"] # <<>>
    /\ RaceLock

NextLost ==
    \/ ScopeWatch
    \/ BundleCreate
    \/ BundleLock
    \/ \E v \in Values : ScopeCommit(v)
    \/ ScopeUnlock
    \/ \E op \in {"undo", "redo", "pause_scope"} : ScopeCall(op)
    \/ ScopeLeave
    \/ LostRaceLock
    \/ \E v \in Values : RaceCommit(v)
    \/ RaceDrop
    \/ \E t \in Threads : LostLog(t)
    \/ ConsumeChangeLog /\ UNCHANGED <<prog, hist>>
    \/ Dispatch /\ UNCHANGED <<prog, hist>>
    \/ ReplayLock /\ UNCHANGED <<prog, hist>>
    \/ ReplayCommit /\ UNCHANGED <<prog, hist>>
    \/ ReplayDrop /\ UNCHANGED <<prog, hist>>
    \/ AdvanceWatermark /\ UNCHANGED <<prog, hist>>
    \/ \E t \in Threads : CommitInternalEnter(t)
    \/ CreateLog(Owner)

SpecLost == InitLost /\ [][NextLost]_vars

\* A watermark moves only over change records that the reconciliation hands
\* on, that a replay pushed, or that were pushed in a pause scope.
WatermarkCovers ==
    \A i \in 1..Len(watchers) :
       \A k \in (watchers[i].cur_watermark + 1)..(watchers'[i].cur_watermark) :
          LET l == change_log[watchers[i].cat][k].lsn
          IN \/ l \in hist.replayed \cup hist.paused
             \/ \E m \in 1..Len(eng'.acc) : eng'.acc[m].lsn = l

\* What the reconciliation hands on is on a stack, or is the undoable being
\* replayed, when the reconciliation is over.
ConsumedPushed ==
    (pc[Owner] = "e_dispatch" /\ pc'[Owner] # "e_dispatch") =>
       \A m \in 1..Len(eng.acc) :
          eng.acc[m].lsn \in StackLsns(undo_stack') \cup StackLsns(redo_stack')
                                \cup UNION {LsnsOf(eng'.top[j]) : j \in 1..Len(eng'.top)}

\* C37: every change record that is neither pushed by a replay of undo() or
\* redo() nor committed inside a pause scope is put on the undo stack by the
\* next reconciliation, also when another thread commits it between the
\* replay and advance_watermarks.
C37_NoEditLost == [][WatermarkCovers /\ ConsumedPushed]_vars

----------------------------------------------------------------------------
(* A thread that waits for a record lock of its own: catalog.rs lines       *)
(* 62-79 and 155-162.                                                       *)

(* Two threads on Person 0 and an instance 1 created from it.  A thread     *)
(* calls lock(id) only for an id above the ids of the handles it holds; it  *)
(* commits through any handle it holds and calls create_from_prototype for  *)
(* any record, whatever it holds.  A call is made in one step and goes on   *)
(* in a later one.  hist[t] is set when thread t calls commit on a record   *)
(* while it holds a handle on a descendant of it, or create_from_prototype  *)
(* on a record it holds a handle on.  The threads make SelfMaxCalls calls   *)
(* in all and create records up to SelfMaxRecords.                          *)

SelfThreads == {0, 1}
SelfMaxCalls == 3
SelfMaxRecords == 3

InitSelf ==
    /\ InitLibrary({"Person"})
    /\ InitThreads(SelfThreads, "build")
    /\ InitNoEngine
    /\ hist = [t \in SelfThreads |-> FALSE]

SelfBuild ==
    /\ AscBuild
    /\ UNCHANGED hist

SelfSpawn ==
    /\ pc[0] = "spawn"
    /\ pc' = [t \in SelfThreads |-> "idle"]
    /\ UNCHANGED <<libVars, ret, cur, frames, handles, reads, prog, engVars, hist>>

SelfCalls == prog[0].n + prog[1].n

\* Thread t holds a Locked handle on record id.
HoldsHandle(t, id) == \E h \in handles[t] : h.cat = "Person" /\ h.id = id

\* The call catalog.lock(id) or catalog.create_from_prototype(id) begins.
SelfCall(t, op, id) ==
    /\ pc[t] = "idle"
    /\ SelfCalls < SelfMaxCalls
    /\ op = "s_lock" => Above(t, id)
    /\ op = "s_cfp" => Len(records["Person"]) < SelfMaxRecords
    /\ pc' = [pc EXCEPT ![t] = op]
    /\ prog' = [prog EXCEPT ![t].n = @ + 1, ![t].val = id]
    /\ hist' = [hist EXCEPT ![t] = op = "s_cfp" /\ HoldsHandle(t, id)]
    /\ UNCHANGED <<libVars, ret, cur, frames, handles, reads, engVars>>

\* get_internal(id, true) of catalog.lock(id) is through its wait.
SelfLock(t) ==
    /\ pc[t] = "s_lock"
    /\ DoLock(t, "Person", prog[t].val, "idle")
    /\ UNCHANGED <<prog, engVars, hist>>

\* get_internal(id, true) of create_from_prototype(id) is through its wait.
SelfCreate(t) ==
    /\ pc[t] = "s_cfp"
    /\ DoCreateFromPrototype(t, "Person", prog[t].val, "idle")
    /\ UNCHANGED <<prog, engVars, hist>>

\* catalog.commit(&h, write), write being h.value with the next name
SelfCommit(t) ==
    /\ pc[t] = "idle"
    /\ SelfCalls < SelfMaxCalls
    /\ \E h \in handles[t] :
          /\ DoCommit(t, h.cat, h.id,
                      [wrappers[h.value].inner EXCEPT
                          !["name"] = (@ + 1) % (MaxValue + 1)],
                      "idle")
          /\ prog' = [prog EXCEPT ![t].n = @ + 1, ![t].val = h.id]
          /\ hist' = [hist EXCEPT ![t] =
                 \E d \in RecordIds("Person") :
                    IsAncestor("Person", h.id, d) /\ HoldsHandle(t, d)]
    /\ UNCHANGED engVars

\* a Locked handle goes out of scope
SelfDrop(t) ==
    /\ pc[t] = "idle"
    /\ \E h \in handles[t] : DoDrop(t, h, "idle")
    /\ UNCHANGED <<prog, engVars, hist>>

NextSelf ==
    \/ SelfBuild
    \/ SelfSpawn
    \/ \E t \in SelfThreads, op \in {"s_lock", "s_cfp"}, id \in RecordIds("Person") :
          SelfCall(t, op, id)
    \/ \E t \in SelfThreads : SelfLock(t)
    \/ \E t \in SelfThreads : SelfCreate(t)
    \/ \E t \in SelfThreads : SelfCommit(t)
    \/ \E t \in SelfThreads : SelfDrop(t)
    \/ \E t \in SelfThreads : CommitInternalEnter(t)
    \/ \E t \in SelfThreads : CommitInternalLog(t) /\ UNCHANGED hist
    \/ \E t \in SelfThreads : PropagateLock(t)
    \/ \E t \in SelfThreads : PropagateUnlock(t)
    \/ \E t \in SelfThreads : CfpCreate(t)
    \/ \E t \in SelfThreads : CreateLog(t)
    \/ \E t \in SelfThreads : CfpInsert(t)
    \/ \E t \in SelfThreads : CfpUnlock(t)

SpecSelf == InitSelf /\ [][NextSelf]_vars

\* Thread t is in the wait of get_internal(id, true) for a record it holds a
\* handle on: in the propagation of its commit, or in create_from_prototype.
SelfWait(t) ==
    \/ pc[t] = "ci_lock" /\ HoldsHandle(t, Top(frames[t]).child)
    \/ pc[t] = "s_cfp" /\ HoldsHandle(t, prog[t].val)

\* The call of hist[t] has not returned.
NeverReturns == \A t \in SelfThreads : hist[t] => pc[t] # "idle"

\* The wait for a lock of its own does not end: the flag stays set and the
\* thread stays where it is, whatever the other thread does.
SelfWaitStays ==
    \A t \in SelfThreads :
       SelfWait(t) => /\ SelfWait(t)'
                      /\ pc'[t] = pc[t]
                      /\ handles'[t] = handles[t]

\* The locks the waiting thread holds were taken in ascending id order.
AscendingHeld ==
    \A t \in SelfThreads : \A h \in handles[t] :
       pc[t] = "s_lock" => h.id < prog[t].val

----------------------------------------------------------------------------
(* undo() and redo() of a creation record: undo.rs lines 25-37, 171-187.    *)

\* u is the UndoRecord of a creation.
IsCreation(u) == u.kind = "UndoRecord" /\ u.old_record = <<>>

\* The step of undo() behind the reconciliation, with a creation on top:
\* no record, wrapper or change record is touched, no commit is started, and
\* the entry goes from the undo stack to the redo stack.
UndoCreationStep ==
    ( /\ pc[Owner] = "e_dispatch"
      /\ pc'[Owner] # "e_dispatch"
      /\ eng.op = "undo"
      /\ Reconciled # <<>>
      /\ IsCreation(Top(Reconciled)) )
    => /\ UNCHANGED <<records, wrappers, locks, change_log>>
       /\ pc'[Owner] \in {"e_advance", "idle"}
       /\ undo_stack' = Pop(Reconciled)
       /\ redo_stack' = Append(redo_stack, Top(Reconciled))

\* The rest of that undo() appends no change record either.
UndoCreationRest ==
    (pc[Owner] = "e_advance" /\ eng.op = "undo") =>
        UNCHANGED <<records, wrappers, locks, change_log>>

\* The step of redo() behind the reconciliation, with a creation on top of
\* the redo stack: the commit of its new_record is started.
RedoCreationStep ==
    ( /\ pc[Owner] = "e_dispatch"
      /\ pc'[Owner] # "e_dispatch"
      /\ eng.op = "redo"
      /\ redo_stack # <<>>
      /\ IsCreation(Top(redo_stack)) )
    => /\ pc'[Owner] = "e_lock"
       /\ eng'.replay = <<Replay(Top(redo_stack), Top(redo_stack).new_record)>>

\* The value the creation change record of id has in the log of catalog c.
CreatedValue(c, id) ==
    LET i == CHOOSE i \in CreationsOf(c, id) : TRUE
    IN wrappers[change_log[c][i].new_record].inner

\* When that commit has returned the record has the value it was created
\* with, and the entry goes back onto the undo stack.
RedoCreationDone ==
    ( /\ pc[Owner] = "e_drop"
      /\ eng.op = "redo"
      /\ IsCreation(eng.top[1]) )
    => LET u == eng.top[1]
       IN /\ Inner(u.cat, u.record_id) = CreatedValue(u.cat, u.record_id)
          /\ Inner(u.cat, u.record_id) = u.new_record
          /\ ENABLED ReplayDrop
          /\ ReplayDrop => undo_stack' = Append(undo_stack, u)

\* C39: undo() whose top undoable is a creation record changes and removes
\* no record and appends no change record, but moves the entry to the redo
\* stack; a later redo() of the entry commits the creation-time value onto
\* the record, whatever value the record has then.
C39_UndoRedoCreation ==
    [][UndoCreationStep /\ UndoCreationRest /\ RedoCreationStep /\ RedoCreationDone]_vars

\* redo() of a creation entry has committed over a value made in a pause
\* scope: the last change record replaces a value other than the
\* creation-time one.
C39_Witness ==
    /\ pc[Owner] = "e_drop"
    /\ eng.op = "redo"
    /\ IsCreation(eng.top[1])
    /\ LET e == change_log["Person"][Len(change_log["Person"])]
       IN /\ e.old_record # NoWrapper
          /\ wrappers[e.old_record].inner # wrappers[e.new_record].inner
          /\ wrappers[e.new_record].inner = eng.top[1].new_record
          /\ e.lsn \notin hist.inside

----------------------------------------------------------------------------
(* Override detection: record.rs lines 44-57, catalog.rs lines 155-162.     *)

(* One thread on Person 0 and the instance 1 created from it: it edits a    *)
(* field of either record in lock, commit, drop blocks, OverrideMaxCommits  *)
(* times.  hist keeps the record committed last, the inner records as they  *)
(* were when that commit was called, and the fields of the instance that a  *)
(* commit on the instance itself has changed (local).                       *)

OverrideMaxCommits == 3
OverrideFields == {"age", "name"}

InitOverride ==
    /\ InitLibrary({"Person"})
    /\ InitThreads({0}, "build")
    /\ InitNoEngine
    /\ hist = [id |-> NoId, pre |-> <<>>, local |-> {}]

\* catalog.create(..); catalog.create_from_prototype(0)
OverrideBuild ==
    /\ pc[0] = "build"
    /\ IF records["Person"] = <<>>
       THEN DoCreate(0, "Person", DefaultRecord("Person"), "build")
       ELSE DoCreateFromPrototype(0, "Person", 0, "idle")
    /\ UNCHANGED <<prog, engVars, hist>>

\* let person = catalog.lock(id)
OverrideLock(id) ==
    /\ pc[0] = "idle"
    /\ prog[0].n < OverrideMaxCommits
    /\ DoLock(0, "Person", id, "c_locked")
    /\ UNCHANGED <<prog, engVars, hist>>

\* write.f = v; catalog.commit(&person, write)
OverrideCommit(f, v) ==
    /\ pc[0] = "c_locked"
    /\ \E h \in handles[0] :
          /\ DoCommit(0, h.cat, h.id, [wrappers[h.value].inner EXCEPT ![f] = v],
                      "c_committed")
          /\ hist' = [id |-> h.id,
                      pre |-> [k \in 1..2 |-> Inner("Person", k - 1)],
                      local |-> IF h.id = 1 /\ Inner("Person", 1)[f] # v
                                THEN hist.local \cup {f} ELSE hist.local]
    /\ prog' = [prog EXCEPT ![0].n = @ + 1]
    /\ UNCHANGED engVars

NextOverride ==
    \/ OverrideBuild
    \/ \E id \in {0, 1} : OverrideLock(id)
    \/ \E f \in OverrideFields, v \in Values : OverrideCommit(f, v)
    \/ ChainDrop
    \/ CommitInternalEnter(0)
    \/ CommitInternalLog(0) /\ UNCHANGED hist
    \/ PropagateLock(0)
    \/ PropagateUnlock(0)
    \/ CfpCreate(0)
    \/ CreateLog(0)
    \/ CfpInsert(0)
    \/ CfpUnlock(0)

SpecOverride == InitOverride /\ [][NextOverride]_vars

\* A commit on the prototype has returned.
PrototypeCommitted == pc[0] = "c_committed" /\ hist.id = 0

\* Field f of the instance is as it was before the commit exactly when it
\* differed from the prototype's field before the commit; otherwise it has
\* the prototype's new value.
PreservedIffDiffers ==
    PrototypeCommitted =>
        \A f \in FieldsOf("Person") :
           Inner("Person", 1)[f] =
               IF hist.pre[2][f] # hist.pre[1][f]
               THEN hist.pre[2][f]
               ELSE Inner("Person", 0)[f]

\* A field the instance once committed locally follows the prototype as soon
\* as the two were equal when the commit was called.
NoMemory ==
    PrototypeCommitted =>
        \A f \in hist.local :
           (hist.pre[2][f] = hist.pre[1][f] /\ Inner("Person", 0)[f] # hist.pre[1][f])
               => /\ Inner("Person", 1)[f] = Inner("Person", 0)[f]
                  /\ Inner("Person", 1)[f] # hist.pre[2][f]

\* C40: override detection keeps no memory.  A prototype commit preserves a
\* field of an instance exactly when that field differs from the
\* prototype's pre-commit value; a field the instance had committed locally
\* to v is overwritten by the next commit that changes the prototype's field
\* once the prototype's field has become v.
C40_OverrideNoMemory == PreservedIffDiffers /\ NoMemory

\* The instance committed name locally, the prototype's name then became
\* that value, and the commit that changed the prototype's name again has
\* changed the instance's name with it.
C40_Witness ==
    /\ PrototypeCommitted
    /\ "name" \in hist.local
    /\ hist.pre[2]["name"] = hist.pre[1]["name"]
    /\ Inner("Person", 0)["name"] # hist.pre[1]["name"]
    /\ Inner("Person", 1)["name"] = Inner("Person", 0)["name"]
    /\ \E k \in 1..Len(change_log["Person"]) :
          /\ change_log["Person"][k].record_id = 0
          /\ change_log["Person"][k].old_record # NoWrapper
          /\ wrappers[change_log["Person"][k].old_record].inner["name"]
                # hist.pre[1]["name"]
          /\ wrappers[change_log["Person"][k].new_record].inner["name"]
                = hist.pre[1]["name"]
          /\ wrappers[records["Person"][2]].inner["name"] # hist.pre[2]["name"]

====
